---- MODULE Spec2Model ----
(***************************************************************************)
(* guut: a debugging session (guut/loop.py, class Loop) that drives a      *)
(* language model towards a mutant-killing test, and the campaign          *)
(* scheduler (guut/cosmic_ray_runner.py, class CosmicRayRunner) that runs  *)
(* one session per mutant and sweeps a killing test over the mutants that  *)
(* are still alive.                                                        *)
(*                                                                         *)
(* The module holds several specifications over one set of variables:      *)
(*   SpecCampaign   CosmicRayRunner.generate_tests, statement by statement *)
(*   SpecSession    Loop.iterate with a live endpoint, handler by handler  *)
(*   SpecReplay     Loop.iterate on replayed responses: the parser         *)
(*   SpecGetState   Loop.get_state on conversations built with add_msg     *)
(*   SpecParallel   the body of generate_tests run by two workers          *)
(*   SpecResume     Loop.iterate and perform_next_step on a conversation   *)
(*                  recorded before, in any state                          *)
(*   SpecExecution  Problem.run_test over run_script, and the kill rule    *)
(* Each specification leaves the variables of the others untouched.        *)
(*                                                                         *)
(* Texts are sequences of atoms (newline, space, hash sign, fence, words), *)
(* and the parser is computed on them line by line as the code does.       *)
(***************************************************************************)
EXTENDS Integers, Sequences, FiniteSets, TLC

VARIABLES
    \* ---- CosmicRayRunner (cosmic_ray_runner.py) ----
    mutants,          \* self.mutants: the initial list of MutantSpecs
    alive_mutants,    \* self.alive_mutants
    mutant_queue,     \* self.mutant_queue
    killed_mutants,   \* self.killed_mutants: list of KilledMutant
    loops,            \* self.loops: list of ResultWithKilledMutants
    cr_pc,            \* position of generate_tests
    cr_mutant,        \* local `mutant` of generate_tests
    cr_test,          \* local `test` of generate_tests (result.get_killing_test())
    cr_killed,        \* local `killed_mutants` of generate_tests / run_against_alive_mutants
    cr_todo,          \* rest of the iteration over self.alive_mutants[::]
    cr_started,       \* log: the target of every Loop constructed (line 150)
    cr_runs,          \* log: the number of problem.run_test calls (line 108) of
                      \* the sweep of the current iteration
    cr_run,           \* log: the latest of these calls, its mutant and its result
    \* ---- Loop (loop.py) ----
    conversation,     \* self.conversation: list of messages
    experiments,      \* self.experiments
    tests,            \* self.tests
    equivalence,      \* self.equivalence
    settings,         \* self.settings
    prompts,          \* self.prompts: whether the collection has a system prompt
    problem,          \* log: the number of calls of self.problem.validate_code,
                      \* run_experiment and run_test
    endpoint,         \* self.endpoint: a ReplayLLMEndpoint, with or without a delegate
    loop_pc,          \* position of iterate: "iterate", "returned" or "raised"
    exception,        \* the exception that left iterate
    iterate_result,   \* the Result iterate returned
    state_returned,   \* what a direct call of get_state returned or raised
    raw_replay_messages, \* log: the messages the endpoint was constructed from
    \* ---- Problem.run_test over run_script (problem.py, execution.py) ----
    execution         \* the two runs of a test: the scripts, the run under way,
                      \* the output communicate has read, the results

campaignVars == <<mutants, alive_mutants, mutant_queue, killed_mutants, loops, cr_pc,
                  cr_mutant, cr_test, cr_killed, cr_todo, cr_started, cr_runs, cr_run>>

loopVars == <<conversation, experiments, tests, equivalence, settings, prompts, problem, endpoint,
              loop_pc, exception, iterate_result, state_returned,
              raw_replay_messages>>

vars == <<campaignVars, loopVars, execution>>

---------------------------------------------------------------------------
\* Bounds of the model.

\* A campaign holds at most MaxMutants mutants.
MaxMutants == 3
\* Exit codes of a test run are 0..MaxExitCode.
MaxExitCode == 1
\* A live endpoint is asked for a completion while the conversation holds fewer
\* than MaxMessages messages.
MaxMessages == 8
\* The largest turn limit among the settings of a session.
MaxTurns == 3
\* A conversation built with direct calls of add_msg holds at most
\* MaxConversation messages.
MaxConversation == 2
\* A replayed response is made of at most MaxChunks chunks.
MaxChunks == 3
\* Bytes one read of communicate takes from the pipe at most
MaxRead == 2

---------------------------------------------------------------------------
\* Generic list helpers (Python list semantics).

\* x in xs
In(x, xs) == \E i \in 1..Len(xs) : xs[i] = x

\* the elements of a list, as a set
Elems(xs) == {xs[i] : i \in 1..Len(xs)}

Remove_Keeps(xs, x) == xs

\* list.remove(x): removes the first element equal to x (x must be present)
Remove(xs, x) ==
    LET i == CHOOSE k \in 1..Len(xs) : xs[k] = x /\ \A j \in 1..(k-1) : xs[j] # x
    IN  [k \in 1..(Len(xs)-1) |-> IF k < i THEN xs[k] ELSE xs[k+1]]

RemoveIfIn_Never(xs, x) == xs

\* `if x in xs: xs.remove(x)`
RemoveIfIn(xs, x) == IF In(x, xs) THEN Remove(xs, x) ELSE xs

---------------------------------------------------------------------------
\* Mutants and coverage.

TargetFiles == {"a.py", "b.py"}
ExitCodes == 0..MaxExitCode

\* MutantSpec (a dataclass: equality is equality of the fields). The runner
\* reads the file of a mutant as mutant.target_path.
MutantSpec(target_path, mutant_op, occurrence, line_start, line_end) ==
    [target_path |-> target_path, mutant_op |-> mutant_op, occurrence |-> occurrence,
     line_start |-> line_start, line_end |-> line_end]

\* The mutants campaigns are built from: one-line and two-line mutants of two
\* files, two of them overlapping.
MutantPool ==
    << MutantSpec("a.py", "op", 0, 1, 1),
       MutantSpec("a.py", "op", 1, 2, 3),
       MutantSpec("a.py", "op", 2, 3, 3),
       MutantSpec("b.py", "op", 0, 1, 2) >>

\* The mutant lists a campaign is started with: distinct mutants, at most
\* MaxMutants of them (listed in the order of the pool: the scheduler picks at
\* random).
MutantLists ==
    {[i \in 1..Len(idx) |-> MutantPool[idx[i]]] :
        idx \in {ix \in UNION {[1..n -> 1..Len(MutantPool)] : n \in 1..MaxMutants} :
                    \A i \in 1..Len(ix) : \A j \in 1..Len(ix) : i < j => ix[i] < ix[j]}}

\* The sets of executed lines a coverage report may hold for a file.
ExecutedLineSets == {{}, {1}, {1, 3}}

\* Coverage.raw["files"]: file name -> {"executed_lines": [...]}; the entry of a
\* file may be missing (present = FALSE models files.get(...) returning None).
NoFileCoverage == [present |-> FALSE, executed_lines |-> {}]
FileCoverage ==
    {NoFileCoverage} \cup {[present |-> TRUE, executed_lines |-> ls] : ls \in ExecutedLineSets}

\* Coverage of a run. `is_none`: the ExecutionResult carries no Coverage at all;
\* `raw_is_none`: it carries one whose raw report is None.
NoCoverage ==
    [is_none |-> TRUE, raw_is_none |-> TRUE, files |-> [f \in TargetFiles |-> NoFileCoverage]]
CoverageWithoutRaw ==
    [is_none |-> FALSE, raw_is_none |-> TRUE, files |-> [f \in TargetFiles |-> NoFileCoverage]]
Coverages ==
    {NoCoverage, CoverageWithoutRaw} \cup
    {[is_none |-> FALSE, raw_is_none |-> FALSE, files |-> r] : r \in [TargetFiles -> FileCoverage]}

is_mutant_covered_AnyLine(mutant, coverage) == coverage.files[mutant.target_path].present

\* CosmicRayRunner.is_mutant_covered
is_mutant_covered(mutant, coverage) ==
    LET file_coverage == coverage.files[mutant.target_path]
    IN  IF file_coverage.present
        THEN \E line \in mutant.line_start..mutant.line_end :
                 line \in file_coverage.executed_lines
        ELSE FALSE

\* KilledMutant(spec, test_result)
KilledMutant(spec, test_result) == [spec |-> spec, test_result |-> test_result]

\* TestResult of problem.run_test: the exit codes of the two runs
TestResult(correct, mutant) == [correct |-> correct, mutant |-> mutant]

\* `test` when result.get_killing_test() returns None, and `mutant` before the
\* first iteration.
NoTest == [kills_mutant |-> FALSE, result |-> TestResult(0, 0), coverage |-> NoCoverage]
NoMutant ==
    [target_path |-> "", mutant_op |-> "", occurrence |-> 0, line_start |-> 0, line_end |-> 0]

SweepKills_MutantOnly(exec_result) == exec_result.mutant # 0

\* No run_test call of a sweep yet
NoRun == [mutant |-> NoMutant, result |-> TestResult(0, 0)]

\* The exit-code rule of the sweep (line 109)
SweepKills(exec_result) == exec_result.correct = 0 /\ exec_result.mutant # 0

---------------------------------------------------------------------------
\* CosmicRayRunner.__init__ and generate_tests.

\* No Loop is constructed
LoopIdle ==
    /\ conversation = <<>>
    /\ experiments = <<>>
    /\ tests = <<>>
    /\ equivalence = [is_none |-> TRUE, text |-> <<>>]
    /\ settings = [max_num_turns |-> 0]
    /\ prompts = [system_prompt |-> FALSE]
    /\ problem = [validate_code |-> 0, run_experiment |-> 0, run_test |-> 0,
                  debugger_scripts |-> <<>>]
    /\ endpoint = [replay_messages |-> <<>>, delegate |-> FALSE]
    /\ loop_pc = "idle"
    /\ exception = ""
    /\ iterate_result = [mutant_killed |-> FALSE]
    /\ state_returned = [raises |-> "", value |-> "None"]
    /\ raw_replay_messages = <<>>

\* No test is being run
ExecutionIdle ==
    execution = [pc |-> "idle", scripts |-> <<>>, use_mutant |-> "no", stdout |-> <<>>,
                 timeout |-> FALSE, results |-> <<>>, kills_mutant |-> FALSE]

CampaignInit ==
    /\ LoopIdle
    /\ ExecutionIdle
    /\ mutants \in MutantLists
    /\ alive_mutants = mutants
    /\ mutant_queue = mutants
    /\ killed_mutants = <<>>
    /\ loops = <<>>
    /\ cr_pc = "while"
    /\ cr_mutant = NoMutant
    /\ cr_test = NoTest
    /\ cr_killed = <<>>
    /\ cr_todo = <<>>
    /\ cr_started = <<>>
    /\ cr_runs = 0
    /\ cr_run = NoRun

\* `while self.mutant_queue: mutant = self.next_mutant()` and the construction
\* of the problem and the Loop for it (lines 132-157).
NextMutant ==
    /\ UNCHANGED <<loopVars, execution>>
    /\ cr_pc = "while"
    /\ mutant_queue # <<>>
    /\ \E i \in 1..Len(mutant_queue) :
          /\ cr_mutant' = mutant_queue[i]
          /\ mutant_queue' = Remove(mutant_queue, mutant_queue[i])
          /\ cr_started' = Append(cr_started, mutant_queue[i])
    /\ cr_pc' = "iterate"
    /\ UNCHANGED <<mutants, alive_mutants, killed_mutants, loops, cr_test, cr_killed,
                   cr_todo, cr_runs, cr_run>>

\* `result = loop.iterate()` and `test := result.get_killing_test()`: the session
\* ends without a killing test, or with one (correct run exit 0, mutant run
\* nonzero) whose correct run carries some coverage (lines 160-162, 172-173).
LoopIterate ==
    /\ UNCHANGED <<loopVars, execution>>
    /\ cr_pc = "iterate"
    /\ cr_killed' = <<>>
    /\ \/ /\ cr_test' = NoTest
          /\ cr_pc' = "append"
       \/ /\ \E cov \in Coverages : \E em \in ExitCodes \ {0} :
                cr_test' = [kills_mutant |-> TRUE,
                            result |-> TestResult(0, em), coverage |-> cov]
          /\ cr_pc' = "killed"
    /\ UNCHANGED <<mutants, alive_mutants, mutant_queue, killed_mutants, loops,
                   cr_mutant, cr_todo, cr_started, cr_runs, cr_run>>

\* The session killed its mutant (lines 163-168).
KillAssigned ==
    /\ UNCHANGED <<loopVars, execution>>
    /\ cr_pc = "killed"
    /\ alive_mutants' = RemoveIfIn(alive_mutants, cr_mutant)
    /\ cr_killed' = Append(cr_killed, KilledMutant(cr_mutant, cr_test.result))
    /\ killed_mutants' = Append(killed_mutants, KilledMutant(cr_mutant, cr_test.result))
    /\ cr_pc' = "sweep_enter"
    /\ UNCHANGED <<mutants, mutant_queue, loops, cr_mutant, cr_test, cr_todo,
                   cr_started, cr_runs, cr_run>>

\* The sweep degrading to a run against every alive mutant when the coverage
\* is missing
SweepEnter_Fallback ==
    /\ UNCHANGED <<loopVars, execution>>
    /\ cr_pc = "sweep_enter"
    /\ cr_pc' = "sweep"
    /\ cr_todo' = alive_mutants
    /\ cr_runs' = 0
    /\ cr_run' = NoRun
    /\ UNCHANGED <<mutants, alive_mutants, mutant_queue, killed_mutants, loops,
                   cr_mutant, cr_test, cr_killed, cr_started>>

\* The sweep going over the queue instead of the alive list
SweepEnter_QueueOnly ==
    /\ UNCHANGED <<loopVars, execution>>
    /\ cr_pc = "sweep_enter"
    /\ IF cr_test.coverage.is_none \/ cr_test.coverage.raw_is_none
       THEN /\ cr_pc' = "raised"
            /\ cr_todo' = <<>>
       ELSE /\ cr_pc' = "sweep"
            /\ cr_todo' = mutant_queue
    /\ cr_runs' = 0
    /\ cr_run' = NoRun
    /\ UNCHANGED <<mutants, alive_mutants, mutant_queue, killed_mutants, loops,
                   cr_mutant, cr_test, cr_killed, cr_started>>

\* run_against_alive_mutants, lines 88-98: the coverage checks and the copy of
\* the alive list the loop iterates over.
SweepEnter ==
    /\ UNCHANGED <<loopVars, execution>>
    /\ cr_pc = "sweep_enter"
    /\ IF cr_test.coverage.is_none \/ cr_test.coverage.raw_is_none
       THEN /\ cr_pc' = "raised"
            /\ cr_todo' = <<>>
       ELSE /\ cr_pc' = "sweep"
            /\ cr_todo' = alive_mutants
    /\ cr_runs' = 0
    /\ cr_run' = NoRun
    /\ UNCHANGED <<mutants, alive_mutants, mutant_queue, killed_mutants, loops,
                   cr_mutant, cr_test, cr_killed, cr_started>>

\* One iteration of `for mutant in self.alive_mutants[::]` (lines 98-117).
SweepStep ==
    /\ UNCHANGED <<loopVars, execution>>
    /\ cr_pc = "sweep"
    /\ cr_todo # <<>>
    /\ LET mutant == Head(cr_todo) IN
       IF is_mutant_covered(mutant, cr_test.coverage)
       THEN \E ec \in ExitCodes : \E em \in ExitCodes :
              LET exec_result == TestResult(ec, em) IN
              /\ cr_runs' = cr_runs + 1
              /\ cr_run' = [mutant |-> mutant, result |-> exec_result]
              /\ IF SweepKills(exec_result)
                 THEN /\ alive_mutants' = RemoveIfIn(alive_mutants, mutant)
                      /\ mutant_queue' = RemoveIfIn(mutant_queue, mutant)
                      /\ cr_killed' = Append(cr_killed, KilledMutant(mutant, exec_result))
                      /\ killed_mutants' =
                             Append(killed_mutants, KilledMutant(mutant, exec_result))
                 ELSE UNCHANGED <<alive_mutants, mutant_queue, cr_killed, killed_mutants>>
       ELSE UNCHANGED <<alive_mutants, mutant_queue, cr_killed, killed_mutants, cr_runs, cr_run>>
    /\ cr_todo' = Tail(cr_todo)
    /\ cr_pc' = "sweep"
    /\ UNCHANGED <<mutants, loops, cr_mutant, cr_test, cr_started>>

\* The sweep returns (line 119, 169-171).
SweepReturn ==
    /\ UNCHANGED <<loopVars, execution>>
    /\ cr_pc = "sweep"
    /\ cr_todo = <<>>
    /\ cr_pc' = "append"
    /\ UNCHANGED <<mutants, alive_mutants, mutant_queue, killed_mutants, loops,
                   cr_mutant, cr_test, cr_killed, cr_todo, cr_started, cr_runs, cr_run>>

\* The result carrying the scheduler's killed list instead of the session's
AppendResult_WholeList ==
    /\ UNCHANGED <<loopVars, execution>>
    /\ cr_pc = "append"
    /\ loops' = Append(loops, [mutant |-> cr_mutant,
                               mutant_killed |-> cr_test.kills_mutant,
                               killed_mutants |-> killed_mutants])
    /\ cr_pc' = "while"
    /\ cr_mutant' = NoMutant
    /\ cr_test' = NoTest
    /\ cr_killed' = <<>>
    /\ cr_runs' = 0
    /\ cr_run' = NoRun
    /\ UNCHANGED <<mutants, alive_mutants, mutant_queue, killed_mutants,
                   cr_todo, cr_started>>

\* `self.loops.append(result); yield result` (lines 175-177). The locals
\* `mutant`, `test` and `killed_mutants` are dead from here on (each is assigned
\* anew before its next read), so they are reset.
AppendResult ==
    /\ UNCHANGED <<loopVars, execution>>
    /\ cr_pc = "append"
    /\ loops' = Append(loops, [mutant |-> cr_mutant,
                               mutant_killed |-> cr_test.kills_mutant,
                               killed_mutants |-> cr_killed])
    /\ cr_pc' = "while"
    /\ cr_mutant' = NoMutant
    /\ cr_test' = NoTest
    /\ cr_killed' = <<>>
    /\ cr_runs' = 0
    /\ cr_run' = NoRun
    /\ UNCHANGED <<mutants, alive_mutants, mutant_queue, killed_mutants,
                   cr_todo, cr_started>>

\* The generator ending while mutants are queued
CampaignFinish_Early ==
    /\ UNCHANGED <<loopVars, execution>>
    /\ cr_pc = "while"
    /\ cr_pc' = "finished"
    /\ UNCHANGED <<mutants, alive_mutants, mutant_queue, killed_mutants, loops,
                   cr_mutant, cr_test, cr_killed, cr_todo, cr_started, cr_runs, cr_run>>

\* The queue is empty: the generator is exhausted (line 132).
CampaignFinish ==
    /\ UNCHANGED <<loopVars, execution>>
    /\ cr_pc = "while"
    /\ mutant_queue = <<>>
    /\ cr_pc' = "finished"
    /\ UNCHANGED <<mutants, alive_mutants, mutant_queue, killed_mutants, loops,
                   cr_mutant, cr_test, cr_killed, cr_todo, cr_started, cr_runs, cr_run>>

CampaignNext ==
    \/ NextMutant
    \/ LoopIterate
    \/ KillAssigned
    \/ SweepEnter
    \/ SweepStep
    \/ SweepReturn
    \/ AppendResult
    \/ CampaignFinish

SpecCampaign == CampaignInit /\ [][CampaignNext]_vars

\* The campaign as it runs: generate_tests is one sequential generator that
\* its consumer drains, and every session returns (LoopIterate is one step), so
\* the next step is always taken while there is one.
SpecCampaignFair == SpecCampaign /\ WF_vars(CampaignNext)

\* No campaign runs
CampaignIdle ==
    /\ mutants = <<>>
    /\ alive_mutants = <<>>
    /\ mutant_queue = <<>>
    /\ killed_mutants = <<>>
    /\ loops = <<>>
    /\ cr_pc = "idle"
    /\ cr_mutant = NoMutant
    /\ cr_test = NoTest
    /\ cr_killed = <<>>
    /\ cr_todo = <<>>
    /\ cr_started = <<>>
    /\ cr_runs = 0
    /\ cr_run = NoRun

---------------------------------------------------------------------------
\* Text. A str is a sequence of atoms: the newline, the space, the hash sign, the
\* fence of three backticks, and words. A word atom stands for a run of letters
\* that holds no proper part of a language name or of a headline keyword; each
\* builtin and each regular expression below is computed on the atoms.

NL == "\n"
SP == " "
HASH == "#"
\* the fence: three backticks
FENCE == "<fence>"

\* The words of the model: language names, headline words, plain words.
Words == {"python", "pdb", "debugger", "Test", "Experiment", "Observation",
          "Equivalent", "Some", "x", "y"}

\* The atoms matching [a-zA-Z0-9]+ and [A-Za-z]+ (every word of the model is a
\* run of letters), \s and #
Alnum == Words
Alpha == Words
Space == {SP}
Hashes == {HASH}

\* word.lower().startswith(keyword), by table
StartsWithIgnoreCase(a, keyword) ==
    \/ a = "Test" /\ keyword = "test"
    \/ a = "Experiment" /\ keyword = "experiment"
    \/ a = "Observation" /\ keyword = "observ"
    \/ a = "Equivalent" /\ keyword = "equiv"

\* text.split("\n")
RECURSIVE split(_)
split(text) ==
    IF \A i \in 1..Len(text) : text[i] # NL
    THEN <<text>>
    ELSE LET i == CHOOSE k \in 1..Len(text) :
                      text[k] = NL /\ \A j \in 1..(k-1) : text[j] # NL
         IN  <<SubSeq(text, 1, i-1)>> \o split(SubSeq(text, i+1, Len(text)))

\* text.splitlines(): no line for the empty rest after a final newline
splitlines(text) ==
    LET parts == split(text)
    IN  IF parts[Len(parts)] = <<>> THEN SubSeq(parts, 1, Len(parts)-1) ELSE parts

\* "\n".join(lines)
RECURSIVE join(_)
join(lines) ==
    IF lines = <<>> THEN <<>>
    ELSE IF Len(lines) = 1 THEN lines[1]
    ELSE lines[1] \o <<NL>> \o join(Tail(lines))

RECURSIVE lstrip(_)
lstrip(line) ==
    IF line # <<>> /\ line[1] = SP THEN lstrip(Tail(line)) ELSE line

RECURSIVE rstrip(_)
rstrip(line) ==
    IF line # <<>> /\ line[Len(line)] = SP
    THEN rstrip(SubSeq(line, 1, Len(line)-1)) ELSE line

\* line.strip()
strip(line) == rstrip(lstrip(line))

\* The length of the longest run of atoms of a class that starts at a position
RECURSIVE RunLength(_, _, _)
RunLength(line, from, class) ==
    IF from <= Len(line) /\ line[from] \in class
    THEN 1 + RunLength(line, from + 1, class)
    ELSE 0

\* re.match(MARKDOWN_CODE_BLOCK_REGEX, line) with the pattern ^<fence>([A-Za-z]+)?\s*$:
\* the fence, an optional language name, then only whitespace. group(1) is the
\* language, the empty text when the group did not take part.
MARKDOWN_CODE_BLOCK_REGEX(line) ==
    IF line = <<>> \/ line[1] # FENCE
    THEN [matched |-> FALSE, language |-> <<>>]
    ELSE LET n == RunLength(line, 2, Alpha)
             s == RunLength(line, 2 + n, Space)
         IN  IF 1 + n + s = Len(line)
             THEN [matched |-> TRUE, language |-> SubSeq(line, 2, 1 + n)]
             ELSE [matched |-> FALSE, language |-> <<>>]

\* The tail r"([a-zA-Z0-9]+ +)*keyword" of a headline pattern, from a position
\* that starts a word: the keyword starts here, or a whole word and the spaces
\* after it are skipped.
RECURSIVE HeadlineWords(_, _, _)
HeadlineWords(line, from, keyword) ==
    IF from > Len(line) THEN FALSE
    ELSE IF StartsWithIgnoreCase(line[from], keyword) THEN TRUE
    ELSE LET w == RunLength(line, from, Alnum)
             s == RunLength(line, from + w, Space)
         IN  w > 0 /\ s > 0 /\ HeadlineWords(line, from + w + s, keyword)

\* re.match of r"^(#+) +([a-zA-Z0-9]+ +)*keyword" with re.IGNORECASE;
\* level is len(match.group(1)).
HeadlineRegex(line, keyword) ==
    LET h == RunLength(line, 1, Hashes)
        s == RunLength(line, 1 + h, Space)
    IN  IF h > 0 /\ s > 0 /\ HeadlineWords(line, 1 + h + s, keyword)
        THEN [matched |-> TRUE, level |-> h]
        ELSE [matched |-> FALSE, level |-> 0]

TEST_HEADLINE_REGEX(line) == HeadlineRegex(line, "test")
EXPERIMENT_HEADLINE_REGEX(line) == HeadlineRegex(line, "experiment")
OBSERVATION_HEADLINE_REGEX(line) == HeadlineRegex(line, "observ")
EQUIVALENCE_HEADLINE_REGEX(line) == HeadlineRegex(line, "equiv")

---------------------------------------------------------------------------
\* Markdown code blocks (guut/parsing.py).

MarkdownBlock(language, code) == [language |-> language, code |-> code]

\* extract_markdown_code_blocks, the loop over the lines with its four locals
RECURSIVE extract_loop(_, _, _, _, _)
extract_loop(lines, blocks, in_code_block, current_language, current_lines) ==
    IF lines = <<>> THEN blocks
    ELSE LET line == Head(lines)
             match == MARKDOWN_CODE_BLOCK_REGEX(line)
         IN  IF match.matched
             THEN IF in_code_block
                  THEN extract_loop(Tail(lines),
                           Append(blocks, MarkdownBlock(current_language, join(current_lines))),
                           match.language # <<>>, match.language, <<>>)
                  ELSE extract_loop(Tail(lines), blocks, TRUE, match.language, current_lines)
             ELSE IF in_code_block
                  THEN extract_loop(Tail(lines), blocks, in_code_block, current_language,
                                    Append(current_lines, line))
                  ELSE extract_loop(Tail(lines), blocks, in_code_block, current_language,
                                    current_lines)

extract_markdown_code_blocks(response) ==
    extract_loop(splitlines(response), <<>>, FALSE, <<>>, <<>>)

\* detect_markdown_code_blocks: each line with its is_code flag
RECURSIVE detect_loop(_, _, _)
detect_loop(lines, in_code_block, out) ==
    IF lines = <<>> THEN out
    ELSE LET line == Head(lines)
             s == strip(line)
         IN  IF s # <<>> /\ s[1] = FENCE
             THEN detect_loop(Tail(lines), ~in_code_block,
                              Append(out, [line |-> line, is_code |-> TRUE]))
             ELSE detect_loop(Tail(lines), in_code_block,
                              Append(out, [line |-> line, is_code |-> in_code_block]))

detect_markdown_code_blocks(response) == detect_loop(splitlines(response), FALSE, <<>>)

---------------------------------------------------------------------------
\* The response parser (guut/loop.py).

\* Problem.allowed_languages() and allowed_debugger_languages()
\* Debugger scripts taken for code
allowed_languages_WithDebugger == {<<"python">>, <<"pdb">>}
allowed_languages == {<<"python">>}
allowed_debugger_languages == {<<"pdb">>, <<"debugger">>}

\* [b.code for b in blocks if (b.language or "") in langs]
RECURSIVE BlocksOf(_, _)
BlocksOf(blocks, langs) ==
    IF blocks = <<>> THEN <<>>
    ELSE IF Head(blocks).language \in langs
         THEN <<Head(blocks).code>> \o BlocksOf(Tail(blocks), langs)
         ELSE BlocksOf(Tail(blocks), langs)

ResponseSection(kind, text, code_blocks, debugger_blocks) ==
    [kind |-> kind, text |-> text, code_blocks |-> code_blocks,
     debugger_blocks |-> debugger_blocks]

\* _parse_response_section: the list holding the section, or the empty list
\* where the code returns None
_parse_response_section(text, kind) ==
    LET markdown_blocks == extract_markdown_code_blocks(text)
        code_blocks == BlocksOf(markdown_blocks, allowed_languages)
        debugger_blocks == BlocksOf(markdown_blocks, allowed_debugger_languages)
    IN  IF code_blocks # <<>> \/ kind # "none"
        THEN <<ResponseSection(kind, text, code_blocks, debugger_blocks)>>
        ELSE <<>>

\* `level = 99`, the level of a line that is no headline
NoHeadlineLevel == 99

\* The headline of a line outside code: kind and level (lines 632-645)
HeadlineOf(line) ==
    IF TEST_HEADLINE_REGEX(line).matched
    THEN [kind |-> "test", level |-> TEST_HEADLINE_REGEX(line).level]
    ELSE IF EXPERIMENT_HEADLINE_REGEX(line).matched
    THEN [kind |-> "experiment", level |-> EXPERIMENT_HEADLINE_REGEX(line).level]
    ELSE IF OBSERVATION_HEADLINE_REGEX(line).matched
    THEN [kind |-> "observation", level |-> OBSERVATION_HEADLINE_REGEX(line).level]
    ELSE IF EQUIVALENCE_HEADLINE_REGEX(line).matched
    THEN [kind |-> "equivalence", level |-> 1]
    ELSE [kind |-> "none", level |-> NoHeadlineLevel]

\* The loop with a rule that compares the kinds only
RECURSIVE parse_loop_KindOnly(_, _, _, _, _)
parse_loop_KindOnly(detected, sections, section_kind, section_level, section_lines) ==
    IF detected = <<>>
    THEN IF section_lines # <<>>
         THEN sections \o _parse_response_section(join(section_lines), section_kind)
         ELSE sections
    ELSE LET line == Head(detected).line
             h == HeadlineOf(line)
         IN  IF Head(detected).is_code \/ h.kind = "none" \/ h.kind = section_kind
             THEN parse_loop_KindOnly(Tail(detected), sections, section_kind, section_level,
                                      Append(section_lines, line))
             ELSE parse_loop_KindOnly(Tail(detected),
                      sections \o _parse_response_section(join(section_lines), section_kind),
                      h.kind, h.level, <<line, line>>)

\* _parse_response, the loop over the detected lines with its locals
RECURSIVE parse_loop(_, _, _, _, _)
parse_loop(detected, sections, section_kind, section_level, section_lines) ==
    IF detected = <<>>
    THEN IF section_lines # <<>>
         THEN sections \o _parse_response_section(join(section_lines), section_kind)
         ELSE sections
    ELSE LET line == Head(detected).line
             h == HeadlineOf(line)
         IN  IF Head(detected).is_code \/ h.kind = "none"
             THEN parse_loop(Tail(detected), sections, section_kind, section_level,
                             Append(section_lines, line))
             ELSE IF h.kind # section_kind \/ h.level <= section_level
             THEN parse_loop(Tail(detected),
                      sections \o _parse_response_section(join(section_lines), section_kind),
                      h.kind, h.level, <<line, line>>)
             ELSE parse_loop(Tail(detected), sections, section_kind, section_level,
                             Append(section_lines, line))

\* _parse_response(text).sections
_parse_response(text) ==
    parse_loop(detect_markdown_code_blocks(text), <<>>, "none", 0, <<>>)

\* [s for s in sections if s.kind == kind and bool(s.code_blocks) == with_code]
RECURSIVE Matches(_, _, _)
Matches(sections, kind, with_code) ==
    IF sections = <<>> THEN <<>>
    ELSE IF Head(sections).kind = kind /\ (Head(sections).code_blocks # <<>>) = with_code
         THEN <<Head(sections)>> \o Matches(Tail(sections), kind, with_code)
         ELSE Matches(Tail(sections), kind, with_code)

Last(xs) == xs[Len(xs)]

\* Response._guess_section: the list holding the section, or the empty list for None
_guess_section(sections, kind) ==
    LET matches_with_code == Matches(sections, kind, TRUE)
        matches_without_code == Matches(sections, kind, FALSE)
    IN  IF matches_with_code # <<>> THEN <<Last(matches_with_code)>>
        ELSE IF matches_without_code # <<>> THEN <<Last(matches_without_code)>>
        ELSE <<>>

\* The actions guess_action can return; ExperimentDescription_NoDebugger is an
\* experiment that drops the debugger blocks of its section
NoAction ==
    [type |-> "None", kind |-> "none", text |-> <<>>, code |-> <<>>,
     debugger_script |-> <<>>, has_debugger_script |-> FALSE]
TestDescription(text, code) ==
    [type |-> "TestDescription", kind |-> "test", text |-> text, code |-> code,
     debugger_script |-> <<>>, has_debugger_script |-> FALSE]
ExperimentDescription_NoDebugger(kind, text, code, debugger_blocks) ==
    [type |-> "ExperimentDescription", kind |-> kind, text |-> text, code |-> code,
     debugger_script |-> <<>>, has_debugger_script |-> FALSE]
ExperimentDescription(kind, text, code, debugger_blocks) ==
    [type |-> "ExperimentDescription", kind |-> kind, text |-> text, code |-> code,
     debugger_script |-> IF debugger_blocks # <<>> THEN Last(debugger_blocks) ELSE <<>>,
     has_debugger_script |-> debugger_blocks # <<>>]

NoClaim == [is_none |-> TRUE, text |-> <<>>]
EquivalenceClaim(text) == [is_none |-> FALSE, text |-> text]

\* Response.guess_action on the sections of a response: (action, claim). One
\* branch of the if/elif chain is taken, the first whose section has code
\* blocks; an empty last block there leaves the chain with no action.
guess_action(sections) ==
    LET eq == _guess_section(sections, "equivalence")
        claim == IF eq # <<>> THEN EquivalenceClaim(eq[1].text) ELSE NoClaim
        HasCode(s) == s # <<>> /\ s[1].code_blocks # <<>>
        test == _guess_section(sections, "test")
        experiment == _guess_section(sections, "experiment")
        observation == _guess_section(sections, "observation")
        none == _guess_section(sections, "none")
        Experiment(kind, section) ==
            IF Last(section.code_blocks) # <<>>
            THEN ExperimentDescription(kind, section.text, Last(section.code_blocks),
                                       section.debugger_blocks)
            ELSE NoAction
        action ==
            IF HasCode(test)
            THEN IF Last(test[1].code_blocks) # <<>>
                 THEN TestDescription(test[1].text, Last(test[1].code_blocks))
                 ELSE NoAction
            ELSE IF HasCode(experiment) THEN Experiment("experiment", experiment[1])
            ELSE IF HasCode(observation) THEN Experiment("observation", observation[1])
            ELSE IF HasCode(none) THEN Experiment("none", none[1])
            ELSE NoAction
    IN  [action |-> action, claim |-> claim]

\* Response.guess_experiment
guess_experiment(sections) ==
    LET action == guess_action(sections).action
    IN  IF action.type = "TestDescription"
        THEN ExperimentDescription("experiment", action.text, action.code, <<>>)
        ELSE action

\* guess_test finding a test in every text
guess_test_AlwaysTest(sections) ==
    LET action == guess_action(sections).action
    IN  TestDescription(action.text, action.code)

\* guess_test without the conversion of an experiment
guess_test_Strict(sections) ==
    LET action == guess_action(sections).action
    IN  IF action.type = "TestDescription" THEN action ELSE NoAction

\* Response.guess_test
guess_test(sections) ==
    LET action == guess_action(sections).action
    IN  IF action.type = "ExperimentDescription"
        THEN TestDescription(action.text, action.code)
        ELSE action

---------------------------------------------------------------------------
\* The session: State, messages and the conversation (guut/loop.py, guut/llm.py).

EMPTY == "empty"
INITIAL == "initial"
EXPERIMENT_STATED == "experiment_stated"
EXPERIMENT_DOESNT_COMPILE == "experiment_doesnt_compile"
EXPERIMENT_RESULTS_GIVEN == "experiment_results_given"
TEST_INSTRUCTIONS_GIVEN == "test_instructions_given"
TEST_STATED == "test_stated"
TEST_DOESNT_COMPILE == "test_invalid"
TEST_DOESNT_DETECT_MUTANT == "test_doesnt_detect_mutant"
CLAIMED_EQUIVALENT == "claimed_equivalent"
EQUIVALENCE_MESSAGE_GIVEN == "equivalence_message_given"
DONE == "done"
INCOMPLETE_RESPONSE == "incomplete_response"
INCOMPLETE_RESPONSE_INSTRUCTIONS_GIVEN == "incomplete_response_instructions_given"
ABORTED == "aborted"
INVALID == "invalid"

\* The values of the enum State
States ==
    {EMPTY, INITIAL, EXPERIMENT_STATED, EXPERIMENT_DOESNT_COMPILE,
     EXPERIMENT_RESULTS_GIVEN, TEST_INSTRUCTIONS_GIVEN, TEST_STATED, TEST_DOESNT_COMPILE,
     TEST_DOESNT_DETECT_MUTANT, CLAIMED_EQUIVALENT, EQUIVALENCE_MESSAGE_GIVEN, DONE,
     INCOMPLETE_RESPONSE, INCOMPLETE_RESPONSE_INSTRUCTIONS_GIVEN, ABORTED, INVALID}

\* Python's None, as the tag of an untagged message
None == "None"

\* bool(tag): None and the empty string are false
Truthy(tag) == tag # None /\ tag # ""

\* A call that returns a value, and a call that raises
Returns(value) == [raises |-> "", value |-> value]
Raises(exc) == [raises |-> exc, value |-> None]

\* State(value), the lookup of an enum member by value: ValueError for a value
\* that names no member
State(value) == IF value \in States THEN Returns(value) ELSE Raises("ValueError")

SYSTEM == "system"
USER == "user"
ASSISTANT == "assistant"

\* SystemMessage, UserMessage and AssistantMessage
Message(role, content, tag) == [role |-> role, content |-> content, tag |-> tag]
SystemMessage(content) == Message(SYSTEM, content, None)
UserMessage(content) == Message(USER, content, None)
AssistantMessage(content) == Message(ASSISTANT, content, None)

\* Loop.get_state
get_state(conv) ==
    IF conv = <<>> THEN Returns(EMPTY)
    ELSE IF Truthy(Last(conv).tag) THEN State(Last(conv).tag)
    ELSE Returns(INVALID)

\* add_msg putting the message in front
add_msg_InFront(conv, msg, tag) ==
    <<IF Truthy(tag) THEN [msg EXCEPT !.tag = tag] ELSE msg>> \o conv

\* Loop.add_msg, as the new conversation
add_msg(conv, msg, tag) ==
    Append(conv, IF Truthy(tag) THEN [msg EXCEPT !.tag = tag] ELSE msg)

\* len([msg for msg in conversation if msg.tag == tag])
CountTag(conv, tag) == Cardinality({i \in 1..Len(conv) : conv[i].tag = tag})

\* The text a prompt template renders to: one atom naming the template
Render(template) == <<template>>

\* conversation_aborted_template.render(reason=...): the template and the reason
RenderAborted(reason) == <<"conversation_aborted_template", reason>>

---------------------------------------------------------------------------
\* Cleaning and concatenating responses.

\* `condition` of _remove_stop_word_residue: an empty line, a blank line or a
\* line of hash signs
condition(line) ==
    \/ line = <<>>
    \/ strip(line) = <<>>
    \/ \A i \in 1..Len(strip(line)) : strip(line)[i] = HASH

\* reversed(list(dropwhile(condition, reversed(lines))))
RECURSIVE DropTrailing(_)
DropTrailing(lines) ==
    IF lines # <<>> /\ condition(Last(lines))
    THEN DropTrailing(SubSeq(lines, 1, Len(lines)-1))
    ELSE lines

_remove_stop_word_residue(text) == join(DropTrailing(splitlines(text)))

\* _clean_response, as the content of the new message
_clean_response(content) == _remove_stop_word_residue(content) \o <<NL>>

\* The loop without its body: no earlier message is collected
concat_loop_Alone(messages, relevant_messages) == relevant_messages

\* The loop without its break: every earlier INCOMPLETE_RESPONSE is collected
RECURSIVE concat_loop_Through(_, _)
concat_loop_Through(messages, relevant_messages) ==
    IF messages = <<>> THEN relevant_messages
    ELSE LET msg == Last(messages)
             rest == SubSeq(messages, 1, Len(messages)-1)
         IN  IF msg.tag = INCOMPLETE_RESPONSE
             THEN concat_loop_Through(rest, <<msg>> \o relevant_messages)
             ELSE concat_loop_Through(rest, relevant_messages)

\* The loop of _concat_incomplete_responses over messages[::-1]
RECURSIVE concat_loop(_, _)
concat_loop(messages, relevant_messages) ==
    IF messages = <<>> THEN relevant_messages
    ELSE LET msg == Last(messages)
             rest == SubSeq(messages, 1, Len(messages)-1)
         IN  IF msg.tag = INCOMPLETE_RESPONSE
             THEN concat_loop(rest, <<msg>> \o relevant_messages)
             ELSE IF msg.tag = INCOMPLETE_RESPONSE_INSTRUCTIONS_GIVEN
             THEN concat_loop(rest, relevant_messages)
             ELSE relevant_messages

Contents(messages) == [i \in 1..Len(messages) |-> messages[i].content]

\* _concat_incomplete_responses(include_message=msg)
_concat_incomplete_responses_with(conv, include_message) ==
    join(Contents(concat_loop(conv, <<include_message>>)))

\* _concat_incomplete_responses()
_concat_incomplete_responses(conv) ==
    join(Contents(concat_loop(SubSeq(conv, 1, Len(conv)-1), <<Last(conv)>>)))

---------------------------------------------------------------------------
\* Responses of the language model.

Headline(level, words) == [i \in 1..level |-> HASH] \o <<SP>> \o words
CodeBlock(language, code) == <<FENCE>> \o language \o <<NL>> \o code \o <<NL, FENCE>>
EmptyCodeBlock(language) == <<FENCE>> \o language \o <<NL, FENCE>>

\* "\n".join of the parts of a response
Lines(parts) == join(parts)

\* The completions of a live endpoint
Responses ==
    { Lines(<<Headline(2, <<"Test">>), CodeBlock(<<"python">>, <<"x">>)>>),
      Lines(<<Headline(2, <<"Experiment">>), CodeBlock(<<"python">>, <<"x">>),
              CodeBlock(<<"pdb">>, <<"y">>)>>),
      Lines(<<Headline(2, <<"Observation">>), CodeBlock(<<"python">>, <<"y">>)>>),
      CodeBlock(<<"python">>, <<"x">>),
      Lines(<<Headline(1, <<"Equivalent">>), <<"Some">>>>),
      <<"Some">> }

---------------------------------------------------------------------------
\* The handlers of Loop._perform_next_step, driven by Loop.iterate.

\* LoopSettings, the fields the handlers read
LoopSettings(max_num_experiments, max_retries_for_invalid_test, max_num_incomplete_responses, max_num_turns, test_inctructions_after_turn) ==
    [max_num_experiments |-> max_num_experiments,
     max_retries_for_invalid_test |-> max_retries_for_invalid_test,
     max_num_incomplete_responses |-> max_num_incomplete_responses,
     max_num_turns |-> max_num_turns,
     test_inctructions_after_turn |-> test_inctructions_after_turn]

\* LoopSettings(): the defaults
DefaultSettings == LoopSettings(99, 99, 2, 10, 8)

\* An Experiment that always carries a result
Experiment_WithResult(description, valid, has_result) ==
    [text |-> description.text, code |-> description.code,
     debugger_script |-> description.debugger_script,
     has_debugger_script |-> description.has_debugger_script,
     kind |-> description.kind, valid |-> valid, has_result |-> TRUE]

\* Experiment.with_description and Test.with_description
Experiment(description, valid, has_result) ==
    [text |-> description.text, code |-> description.code,
     debugger_script |-> description.debugger_script,
     has_debugger_script |-> description.has_debugger_script,
     kind |-> description.kind, valid |-> valid, has_result |-> has_result]
Test(description, valid, has_result, result, kills_mutant) ==
    [text |-> description.text, code |-> description.code, valid |-> valid,
     has_result |-> has_result, result |-> result, kills_mutant |-> kills_mutant]

\* The exit-code rule of _run_test (line 522)
TestKills_MutantOnly(result) == result.mutant # 0
TestKills(result) == result.correct = 0 /\ result.mutant # 0

\* get_result: killing_test_found
killing_test_found_AnyTest(ts) == ts # <<>>
killing_test_found(ts) == \E i \in 1..Len(ts) : ts[i].kills_mutant

\* _prompt_for_action: test_instructions_stated
test_instructions_stated_Last(conv) ==
    conv # <<>> /\ Last(conv).tag = TEST_INSTRUCTIONS_GIVEN
test_instructions_stated(conv) ==
    \E i \in 1..Len(conv) : conv[i].tag = TEST_INSTRUCTIONS_GIVEN

\* The prompting states with ABORTED among them
PromptStates_WithAborted ==
    {INITIAL, ABORTED, EXPERIMENT_DOESNT_COMPILE, EXPERIMENT_RESULTS_GIVEN,
     TEST_INSTRUCTIONS_GIVEN, TEST_DOESNT_COMPILE, TEST_DOESNT_DETECT_MUTANT,
     EQUIVALENCE_MESSAGE_GIVEN, INCOMPLETE_RESPONSE_INSTRUCTIONS_GIVEN}

\* The states whose handler is _prompt_for_action
PromptStates ==
    {INITIAL, EXPERIMENT_DOESNT_COMPILE, EXPERIMENT_RESULTS_GIVEN, TEST_INSTRUCTIONS_GIVEN,
     TEST_DOESNT_COMPILE, TEST_DOESNT_DETECT_MUTANT, EQUIVALENCE_MESSAGE_GIVEN,
     INCOMPLETE_RESPONSE_INSTRUCTIONS_GIVEN}

\* The states that end the loop of iterate
FinalStates == {DONE, ABORTED, INVALID}

\* No Result yet
NoResult == [mutant_killed |-> FALSE]

\* No call of a method of the problem yet; debugger_scripts are the debugger
\* scripts run_experiment was handed
NoCalls == [validate_code |-> 0, run_experiment |-> 0, run_test |-> 0, debugger_scripts |-> <<>>]

\* One more call of a method of the problem
Called(calls, method) == [calls EXCEPT ![method] = @ + 1]

\* _prompt_for_action leaving the response without a tag
ResponseTag_Untagged(action, claim, instructions_stated) == None

\* The tag _prompt_for_action gives the response (lines 416-440)
ResponseTag(action, claim, instructions_stated) ==
    IF action.type = "None"
    THEN IF ~claim.is_none THEN CLAIMED_EQUIVALENT ELSE INCOMPLETE_RESPONSE
    ELSE IF action.type = "TestDescription" THEN TEST_STATED
    ELSE IF action.kind \in {"experiment", "observation"} THEN EXPERIMENT_STATED
    ELSE IF instructions_stated THEN TEST_STATED
    ELSE EXPERIMENT_STATED

\* The handler is entered: iterate found a state that is not final
Handling(state) == loop_pc = "iterate" /\ get_state(conversation) = Returns(state)

\* _init_conversation
InitConversation ==
    /\ UNCHANGED <<campaignVars, execution>>
    /\ Handling(EMPTY)
    /\ conversation' =
         LET c0 == IF prompts.system_prompt
                   THEN add_msg(conversation, SystemMessage(Render("system_prompt")), None)
                   ELSE conversation
             c1 == add_msg(c0, UserMessage(Render("debug_prompt")), None)
         IN  add_msg(c1, UserMessage(Render("problem_template")), INITIAL)
    /\ UNCHANGED <<experiments, tests, equivalence, settings, prompts, problem, endpoint,
                   raw_replay_messages, loop_pc, exception, iterate_result, state_returned>>

\* _prompt_for_action from the cleaning of the response on (lines 405-440)
Classify(content) ==
    LET response == AssistantMessage(_clean_response(content))
        relevant_text == _concat_incomplete_responses_with(conversation, response)
        raw_experiment == _parse_response(relevant_text)
        guess == guess_action(raw_experiment)
    IN  /\ equivalence' = IF ~guess.claim.is_none THEN guess.claim ELSE equivalence
        /\ conversation' = add_msg(conversation, response,
                               ResponseTag(guess.action, guess.claim,
                                           test_instructions_stated(conversation)))

\* _prompt_for_action. _complete is ReplayLLMEndpoint.complete: the next replay
\* message, else a completion of the delegate, else an exception.
PromptForAction ==
    /\ UNCHANGED <<campaignVars, execution>>
    /\ loop_pc = "iterate"
    /\ \E s \in PromptStates : get_state(conversation) = Returns(s)
    /\ IF endpoint.replay_messages # <<>>
       THEN /\ endpoint' = [endpoint EXCEPT !.replay_messages = Tail(@)]
            /\ Classify(Head(endpoint.replay_messages))
            /\ UNCHANGED <<loop_pc, exception>>
       ELSE IF endpoint.delegate
       THEN /\ Len(conversation) < MaxMessages
            /\ \E content \in Responses : Classify(content)
            /\ UNCHANGED <<endpoint, loop_pc, exception>>
       ELSE /\ loop_pc' = "raised"
            /\ exception' = "Exception"
            /\ UNCHANGED <<endpoint, conversation, equivalence>>
    /\ UNCHANGED <<experiments, tests, settings, prompts, problem, raw_replay_messages,
                   iterate_result, state_returned>>

\* The limits with the cap on the experiments applied to the turns
ExperimentLimits_CapOnTurns(conv, s) ==
    LET num_turns == CountTag(conv, EXPERIMENT_STATED) + CountTag(conv, TEST_STATED)
    IN  IF num_turns >= s.max_num_turns
        THEN add_msg(conv, UserMessage(RenderAborted("too_many_turns")), ABORTED)
        ELSE IF \/ num_turns = s.max_num_experiments
                \/ num_turns = s.test_inctructions_after_turn
        THEN add_msg(conv, UserMessage(Render("test_prompt")), TEST_INSTRUCTIONS_GIVEN)
        ELSE IF num_turns > s.max_num_experiments
        THEN add_msg(conv, UserMessage(RenderAborted("too_many_experiments")), ABORTED)
        ELSE conv

\* The limits with the test instructions tried before the turn limit
ExperimentLimits_InstructionsFirst(conv, s) ==
    LET num_experiments == CountTag(conv, EXPERIMENT_STATED)
        num_turns == num_experiments + CountTag(conv, TEST_STATED)
    IN  IF \/ num_experiments = s.max_num_experiments
           \/ num_turns = s.test_inctructions_after_turn
        THEN add_msg(conv, UserMessage(Render("test_prompt")), TEST_INSTRUCTIONS_GIVEN)
        ELSE IF num_turns >= s.max_num_turns
        THEN add_msg(conv, UserMessage(RenderAborted("too_many_turns")), ABORTED)
        ELSE IF num_experiments > s.max_num_experiments
        THEN add_msg(conv, UserMessage(RenderAborted("too_many_experiments")), ABORTED)
        ELSE conv

\* The limits with the turn limit applied one turn late
ExperimentLimits_OneMore(conv, s) ==
    LET num_experiments == CountTag(conv, EXPERIMENT_STATED)
        num_turns == num_experiments + CountTag(conv, TEST_STATED)
    IN  IF num_turns > s.max_num_turns
        THEN add_msg(conv, UserMessage(RenderAborted("too_many_turns")), ABORTED)
        ELSE IF \/ num_experiments = s.max_num_experiments
                \/ num_turns = s.test_inctructions_after_turn
        THEN add_msg(conv, UserMessage(Render("test_prompt")), TEST_INSTRUCTIONS_GIVEN)
        ELSE IF num_experiments > s.max_num_experiments
        THEN add_msg(conv, UserMessage(RenderAborted("too_many_experiments")), ABORTED)
        ELSE conv

\* The end of _run_experiment (lines 476-500): the conversation after the turn
\* limits are applied
ExperimentLimits(conv, s) ==
    LET num_experiments == CountTag(conv, EXPERIMENT_STATED)
        num_tests == CountTag(conv, TEST_STATED)
        num_turns == num_experiments + num_tests
    IN  IF num_turns >= s.max_num_turns
        THEN add_msg(conv, UserMessage(RenderAborted("too_many_turns")), ABORTED)
        ELSE IF \/ num_experiments = s.max_num_experiments
                \/ num_turns = s.test_inctructions_after_turn
        THEN add_msg(conv, UserMessage(Render("test_prompt")), TEST_INSTRUCTIONS_GIVEN)
        ELSE IF num_experiments > s.max_num_experiments
        THEN add_msg(conv, UserMessage(RenderAborted("too_many_experiments")), ABORTED)
        ELSE conv

\* The limits without the limit on the tests
TestLimits_TurnsOnly(conv, s) ==
    LET num_turns == CountTag(conv, EXPERIMENT_STATED) + CountTag(conv, TEST_STATED)
    IN  IF num_turns >= s.max_num_turns
        THEN add_msg(conv, UserMessage(RenderAborted("too_many_turns")), ABORTED)
        ELSE IF num_turns = s.test_inctructions_after_turn
        THEN add_msg(conv, UserMessage(Render("test_prompt")), TEST_INSTRUCTIONS_GIVEN)
        ELSE conv

\* The end of _run_test (lines 541-563)
TestLimits(conv, s) ==
    LET num_experiments == CountTag(conv, EXPERIMENT_STATED)
        num_tests == CountTag(conv, TEST_STATED)
        num_turns == num_experiments + num_tests
        c1 == IF num_turns = s.test_inctructions_after_turn
              THEN add_msg(conv, UserMessage(Render("test_prompt")), TEST_INSTRUCTIONS_GIVEN)
              ELSE conv
    IN  IF num_turns >= s.max_num_turns
        THEN add_msg(conv, UserMessage(RenderAborted("too_many_turns")), ABORTED)
        ELSE IF num_tests > s.max_retries_for_invalid_test
        THEN add_msg(c1, UserMessage(RenderAborted("max_invalid_tests")), ABORTED)
        ELSE c1

\* _run_experiment keeping no record of an experiment that does not compile
RunExperiment_NoRecord ==
    /\ UNCHANGED <<campaignVars, execution>>
    /\ Handling(EXPERIMENT_STATED)
    /\ LET relevant_text == _concat_incomplete_responses(conversation)
           experiment == guess_experiment(_parse_response(relevant_text))
           name == IF experiment.kind = "observation" THEN "observation" ELSE "experiment"
       IN  IF experiment.type # "ExperimentDescription"
           THEN /\ loop_pc' = "raised"
                /\ exception' = "InvalidStateException"
                /\ UNCHANGED <<conversation, experiments, problem>>
           ELSE /\ \/ /\ conversation' =
                           ExperimentLimits(
                               add_msg(conversation,
                                       UserMessage(Render("experiment_doesnt_compile_template")),
                                       EXPERIMENT_DOESNT_COMPILE), settings)
                      /\ experiments' = experiments
                      /\ problem' = Called(problem, "validate_code")
                   \/ /\ conversation' =
                           ExperimentLimits(
                               add_msg(conversation,
                                       UserMessage(Render("experiment_results_template")),
                                       EXPERIMENT_RESULTS_GIVEN), settings)
                      /\ experiments' =
                           Append(experiments,
                                  Experiment([experiment EXCEPT !.kind = name], TRUE, TRUE))
                      /\ problem' =
                           [Called(Called(problem, "validate_code"), "run_experiment")
                               EXCEPT !.debugger_scripts =
                                   IF experiment.has_debugger_script
                                   THEN Append(@, experiment.debugger_script) ELSE @]
                /\ UNCHANGED <<loop_pc, exception>>
    /\ UNCHANGED <<tests, equivalence, settings, prompts, endpoint, raw_replay_messages,
                   iterate_result, state_returned>>

\* _run_experiment
RunExperiment ==
    /\ UNCHANGED <<campaignVars, execution>>
    /\ Handling(EXPERIMENT_STATED)
    /\ LET relevant_text == _concat_incomplete_responses(conversation)
           experiment == guess_experiment(_parse_response(relevant_text))
           name == IF experiment.kind = "observation" THEN "observation" ELSE "experiment"
       IN  IF experiment.type # "ExperimentDescription"
           THEN /\ loop_pc' = "raised"
                /\ exception' = "InvalidStateException"
                /\ UNCHANGED <<conversation, experiments, problem>>
           ELSE /\ \/ /\ conversation' =
                           ExperimentLimits(
                               add_msg(conversation,
                                       UserMessage(Render("experiment_doesnt_compile_template")),
                                       EXPERIMENT_DOESNT_COMPILE), settings)
                      /\ experiments' = Append(experiments, Experiment(experiment, FALSE, FALSE))
                      /\ problem' = Called(problem, "validate_code")
                   \/ /\ conversation' =
                           ExperimentLimits(
                               add_msg(conversation,
                                       UserMessage(Render("experiment_results_template")),
                                       EXPERIMENT_RESULTS_GIVEN), settings)
                      /\ experiments' =
                           Append(experiments,
                                  Experiment([experiment EXCEPT !.kind = name], TRUE, TRUE))
                      /\ problem' =
                           [Called(Called(problem, "validate_code"), "run_experiment")
                               EXCEPT !.debugger_scripts =
                                   IF experiment.has_debugger_script
                                   THEN Append(@, experiment.debugger_script) ELSE @]
                /\ UNCHANGED <<loop_pc, exception>>
    /\ UNCHANGED <<tests, equivalence, settings, prompts, endpoint, raw_replay_messages,
                   iterate_result, state_returned>>

\* _run_test
RunTest ==
    /\ UNCHANGED <<campaignVars, execution>>
    /\ Handling(TEST_STATED)
    /\ LET relevant_text == _concat_incomplete_responses(conversation)
           test == guess_test(_parse_response(relevant_text))
       IN  IF test.type # "TestDescription"
           THEN /\ loop_pc' = "raised"
                /\ exception' = "InvalidStateException"
                /\ UNCHANGED <<conversation, tests, problem>>
           ELSE /\ \/ /\ conversation' =
                           TestLimits(
                               add_msg(conversation,
                                       UserMessage(Render("test_doesnt_compile_template")),
                                       TEST_DOESNT_COMPILE), settings)
                      /\ tests' = Append(tests, Test(test, FALSE, FALSE, TestResult(0, 0), FALSE))
                      /\ problem' = Called(problem, "validate_code")
                   \/ \E ec \in ExitCodes : \E em \in ExitCodes :
                        LET test_result == TestResult(ec, em) IN
                        /\ problem' = Called(Called(problem, "validate_code"), "run_test")
                        /\ IF TestKills(test_result)
                           THEN /\ conversation' =
                                     add_msg(conversation,
                                             UserMessage(Render("results_template")), DONE)
                                /\ tests' =
                                     Append(tests, Test(test, TRUE, TRUE, test_result, TRUE))
                           ELSE /\ conversation' =
                                     TestLimits(
                                         add_msg(conversation,
                                             UserMessage(Render("test_doesnt_detect_mutant_template")),
                                             TEST_DOESNT_DETECT_MUTANT), settings)
                                /\ tests' =
                                     Append(tests, Test(test, TRUE, TRUE, test_result, FALSE))
                /\ UNCHANGED <<loop_pc, exception>>
    /\ UNCHANGED <<experiments, equivalence, settings, prompts, endpoint,
                   raw_replay_messages, iterate_result, state_returned>>

\* The handler aborting as soon as the counter is reached
_handle_incomplete_response_AtBudget(conv, s) ==
    IF CountTag(conv, INCOMPLETE_RESPONSE) >= s.max_num_incomplete_responses
    THEN add_msg(conv, UserMessage(RenderAborted("incomplete_response")), ABORTED)
    ELSE add_msg(conv, UserMessage(Render("incomplete_response_template")),
                 INCOMPLETE_RESPONSE_INSTRUCTIONS_GIVEN)

\* _handle_incomplete_response: the conversation it leaves
_handle_incomplete_response(conv, s) ==
    LET num_tries == CountTag(conv, INCOMPLETE_RESPONSE)
    IN  IF num_tries > s.max_num_incomplete_responses
        THEN add_msg(conv, UserMessage(RenderAborted("incomplete_response")), ABORTED)
        ELSE add_msg(conv, UserMessage(Render("incomplete_response_template")),
                     INCOMPLETE_RESPONSE_INSTRUCTIONS_GIVEN)

\* _handle_incomplete_response
HandleIncompleteResponse ==
    /\ UNCHANGED <<campaignVars, execution>>
    /\ Handling(INCOMPLETE_RESPONSE)
    /\ conversation' = _handle_incomplete_response(conversation, settings)
    /\ UNCHANGED <<experiments, tests, equivalence, settings, prompts, problem, endpoint,
                   raw_replay_messages, loop_pc, exception, iterate_result, state_returned>>

\* _write_equivalence_result, which _perform_next_step does not call (line 347):
\* the claim ends the session
_write_equivalence_result(conv) ==
    add_msg(conv, UserMessage(Render("results_template")), DONE)

\* _write_equivalence_message: the conversation it leaves
_write_equivalence_message(conv) ==
    add_msg(conv, UserMessage(Render("equivalence_claim_template")), EQUIVALENCE_MESSAGE_GIVEN)

\* _write_equivalence_message
WriteEquivalenceMessage ==
    /\ UNCHANGED <<campaignVars, execution>>
    /\ Handling(CLAIMED_EQUIVALENT)
    /\ conversation' = _write_equivalence_message(conversation)
    /\ UNCHANGED <<experiments, tests, equivalence, settings, prompts, problem, endpoint,
                   raw_replay_messages, loop_pc, exception, iterate_result, state_returned>>

\* The loop of iterate ends in a final state: get_result
GetResult ==
    /\ UNCHANGED <<campaignVars, execution>>
    /\ loop_pc = "iterate"
    /\ \E s \in FinalStates : get_state(conversation) = Returns(s)
    /\ iterate_result' = [mutant_killed |-> killing_test_found(tests)]
    /\ loop_pc' = "returned"
    /\ UNCHANGED <<conversation, experiments, tests, equivalence, settings, prompts, problem,
                   endpoint, raw_replay_messages, exception, state_returned>>

---------------------------------------------------------------------------
\* Sessions with a live endpoint.

\* The settings of the sessions explored
SettingsSet ==
    { LoopSettings(1, 1, 1, MaxTurns, MaxTurns - 1),
      LoopSettings(MaxTurns, 0, 2, MaxTurns - 1, 1),
      LoopSettings(1, 0, 0, 1, 1),
      LoopSettings(1, 1, 0, MaxTurns, 0) }

\* Loop.__init__ with a live endpoint, on an empty conversation or on one that
\* holds the INITIAL message
SessionInit ==
    /\ CampaignIdle
    /\ ExecutionIdle
    /\ conversation \in {<<>>, <<Message(ASSISTANT, <<>>, INITIAL)>>}
    /\ experiments = <<>>
    /\ tests = <<>>
    /\ equivalence = NoClaim
    /\ settings \in SettingsSet
    /\ prompts \in {[system_prompt |-> b] : b \in BOOLEAN}
    /\ problem = NoCalls
    /\ endpoint = [replay_messages |-> <<>>, delegate |-> TRUE]
    /\ raw_replay_messages = <<>>
    /\ loop_pc = "iterate"
    /\ exception = ""
    /\ iterate_result = NoResult
    /\ state_returned = Returns(None)

SessionNext ==
    \/ InitConversation
    \/ PromptForAction
    \/ RunExperiment
    \/ RunTest
    \/ HandleIncompleteResponse
    \/ WriteEquivalenceMessage
    \/ GetResult

SpecSession == SessionInit /\ [][SessionNext]_vars

---------------------------------------------------------------------------
\* Direct calls of get_state on conversations built with add_msg.

\* The tags a message can carry: tag is typed Any
Tags == States \cup {None, "", "bogus"}

\* No call of get_state since the conversation last changed
NotCalled == Returns(None)

\* Loop.__init__ on an empty conversation or on one message
GetStateInit ==
    /\ CampaignIdle
    /\ ExecutionIdle
    /\ conversation \in {<<>>} \cup {<<Message(USER, <<>>, tag)>> : tag \in Tags}
    /\ experiments = <<>>
    /\ tests = <<>>
    /\ equivalence = NoClaim
    /\ settings = DefaultSettings
    /\ prompts = [system_prompt |-> FALSE]
    /\ problem = NoCalls
    /\ endpoint = [replay_messages |-> <<>>, delegate |-> FALSE]
    /\ raw_replay_messages = <<>>
    /\ loop_pc = "constructed"
    /\ exception = ""
    /\ iterate_result = NoResult
    /\ state_returned = NotCalled

\* loop.add_msg(msg, tag) for a message that carries a tag of its own or none
AddMsg ==
    /\ UNCHANGED <<campaignVars, execution>>
    /\ loop_pc = "constructed"
    /\ Len(conversation) < MaxConversation
    /\ \E own \in Tags : \E tag \in States \cup {None} :
          conversation' = add_msg(conversation, Message(USER, <<>>, own), tag)
    /\ state_returned' = NotCalled
    /\ UNCHANGED <<experiments, tests, equivalence, settings, prompts, problem, endpoint,
                   raw_replay_messages, loop_pc, exception, iterate_result>>

\* loop.get_state()
GetState ==
    /\ UNCHANGED <<campaignVars, execution>>
    /\ loop_pc = "constructed"
    /\ state_returned' = get_state(conversation)
    /\ UNCHANGED <<conversation, experiments, tests, equivalence, settings, prompts, problem,
                   endpoint, raw_replay_messages, loop_pc, exception, iterate_result>>

GetStateNext == AddMsg \/ GetState

SpecGetState == GetStateInit /\ [][GetStateNext]_vars

---------------------------------------------------------------------------
\* Sessions that replay recorded responses.

\* The parts responses are made of: headlines, code blocks, plain text
Chunks ==
    { Headline(2, <<"Test">>), Headline(2, <<"Experiment">>), Headline(2, <<"Observation">>),
      Headline(1, <<"Equivalent">>), CodeBlock(<<"python">>, <<"x">>),
      EmptyCodeBlock(<<"python">>), CodeBlock(<<"pdb">>, <<"y">>), CodeBlock(<<>>, <<"x">>),
      <<"Some">> }

\* The lists of 1..n chunks
RECURSIVE ChunkLists(_)
ChunkLists(n) ==
    IF n = 0 THEN {}
    ELSE {<<c>> : c \in Chunks} \cup
         {Append(cs, c) : cs \in ChunkLists(n - 1), c \in Chunks}

\* Responses of up to MaxChunks chunks, one per line
ParseTexts == {Lines(cs) : cs \in ChunkLists(MaxChunks)}

\* The code of a response that is split
CodeTexts ==
    { <<"x", NL, "y">>, <<"x", NL, NL, "y", NL, NL, "x">>, <<"x", SP, "y", NL, "x">> }

\* A response that holds one valid action: a headline and one code block
WholeResponse(word, code) == Lines(<<Headline(2, <<word>>), CodeBlock(<<"python">>, code)>>)
HeadlineWordsOfActions == {"Test", "Experiment", "Observation"}

\* A text cut after its atoms p1 and p2
SplitAt(text, p1, p2) ==
    <<SubSeq(text, 1, p1), SubSeq(text, p1 + 1, p2), SubSeq(text, p2 + 1, Len(text))>>

\* The cuts inside the code block of a whole response: after the line of the
\* opening fence, between two atoms of the code, or after the last of them
CutPoints(word, code) ==
    LET before == Len(WholeResponse(word, code)) - Len(code) - 2
    IN  before..(before + Len(code))

\* The splits of a whole response at two points inside its code block
Splits(word, code) ==
    {SplitAt(WholeResponse(word, code), cut[1], cut[2]) :
        cut \in {c \in CutPoints(word, code) \X CutPoints(word, code) : c[1] < c[2]}}

\* A text cut after its atom p, and the cuts of a whole response at one point
\* inside its code block
CutAt(text, p) == <<SubSeq(text, 1, p), SubSeq(text, p + 1, Len(text))>>
Cuts(word, code) == {CutAt(WholeResponse(word, code), p) : p \in CutPoints(word, code)}

\* The raw messages of the endpoints explored: one response, two short
\* responses, an experiment and a test that both hold a debugger script, or a
\* whole response in two or in three pieces
ReplayScripts ==
    {<<t>> : t \in ParseTexts}
    \cup {<<t1, t2>> : t1 \in ChunkLists(1), t2 \in ChunkLists(1)}
    \cup {<<Lines(<<Headline(2, <<"Experiment">>), CodeBlock(<<"python">>, <<"x">>),
                    CodeBlock(<<"pdb">>, <<"y">>)>>),
            Lines(<<Headline(2, <<"Test">>), CodeBlock(<<"python">>, <<"x">>),
                    CodeBlock(<<"debugger">>, <<"y">>)>>)>>}
    \cup UNION {Cuts(word, code) : word \in HeadlineWordsOfActions, code \in CodeTexts}
    \cup UNION {Splits(word, code) : word \in HeadlineWordsOfActions, code \in CodeTexts}

\* The conversations a replayed session is constructed on: the INITIAL message,
\* or test instructions followed by the result of an experiment
ReplayConversations ==
    { <<Message(ASSISTANT, <<>>, INITIAL)>>,
      <<Message(USER, <<>>, TEST_INSTRUCTIONS_GIVEN),
        Message(USER, <<>>, EXPERIMENT_RESULTS_GIVEN)>> }

\* Loop.__init__ with ReplayLLMEndpoint.from_raw_messages and no delegate
ReplayInit ==
    /\ CampaignIdle
    /\ ExecutionIdle
    /\ conversation \in ReplayConversations
    /\ experiments = <<>>
    /\ tests = <<>>
    /\ equivalence = NoClaim
    /\ settings = DefaultSettings
    /\ prompts = [system_prompt |-> FALSE]
    /\ problem = NoCalls
    /\ raw_replay_messages \in ReplayScripts
    /\ endpoint = [replay_messages |-> raw_replay_messages, delegate |-> FALSE]
    /\ loop_pc = "iterate"
    /\ exception = ""
    /\ iterate_result = NoResult
    /\ state_returned = NotCalled

ReplayNext ==
    \/ PromptForAction
    \/ RunExperiment
    \/ RunTest
    \/ HandleIncompleteResponse
    \/ WriteEquivalenceMessage
    \/ GetResult

SpecReplay == ReplayInit /\ [][ReplayNext]_vars

---------------------------------------------------------------------------
\* Sessions that replay one response made of headlines of several depths.

\* Headlines of two kinds and depths, equivalence headlines of two depths, a
\* code block, and a code block whose code is shaped like a headline
HeadlineChunks ==
    { Headline(2, <<"Test">>), Headline(3, <<"Test">>), Headline(2, <<"Experiment">>),
      Headline(1, <<"Equivalent">>), Headline(3, <<"Equivalent">>),
      CodeBlock(<<"python">>, <<"x">>),
      CodeBlock(<<"python">>, Headline(2, <<"Test">>)) }

\* The lists of 1..n of these chunks
RECURSIVE HeadlineChunkLists(_)
HeadlineChunkLists(n) ==
    IF n = 0 THEN {}
    ELSE {<<c>> : c \in HeadlineChunks} \cup
         {Append(cs, c) : cs \in HeadlineChunkLists(n - 1), c \in HeadlineChunks}

\* Loop.__init__ on the INITIAL message, with one recorded response
HeadlinesInit ==
    /\ CampaignIdle
    /\ ExecutionIdle
    /\ conversation = <<Message(ASSISTANT, <<>>, INITIAL)>>
    /\ experiments = <<>>
    /\ tests = <<>>
    /\ equivalence = NoClaim
    /\ settings = DefaultSettings
    /\ prompts = [system_prompt |-> FALSE]
    /\ problem = NoCalls
    /\ raw_replay_messages \in {<<Lines(cs)>> : cs \in HeadlineChunkLists(MaxChunks)}
    /\ endpoint = [replay_messages |-> raw_replay_messages, delegate |-> FALSE]
    /\ loop_pc = "iterate"
    /\ exception = ""
    /\ iterate_result = NoResult
    /\ state_returned = NotCalled

SpecHeadlines == HeadlinesInit /\ [][ReplayNext]_vars

---------------------------------------------------------------------------
\* The campaign run by parallel workers. The repository runs generate_tests
\* sequentially; here each worker runs the body of its loop, and the blocks
\* that change mutant_queue, alive_mutants and killed_mutants are the blocks
\* of the code, each taken as one step (one critical section). cr_pc,
\* cr_mutant, cr_test, cr_killed and cr_todo hold one value per worker.

Workers == {"w1", "w2"}

\* The exit codes of the runs of the workers' tests: 0 for a passing run, 1 for
\* every failing one (the rules of lines 109 and 163 only compare with 0)
WorkerExitCodes == {0, 1}

\* The coverage reports of the killing tests of the workers: none, or one
\* that covers the mutants of a.py and has no entry for b.py
WorkerCoverages ==
    { c \in Coverages :
        \/ c = NoCoverage
        \/ /\ ~c.raw_is_none
           /\ c.files["a.py"] = [present |-> TRUE, executed_lines |-> {1, 3}]
           /\ c.files["b.py"] = NoFileCoverage }

\* CosmicRayRunner.__init__, and every worker at the head of the loop
ParallelInit ==
    /\ LoopIdle
    /\ ExecutionIdle
    /\ mutants \in MutantLists
    /\ alive_mutants = mutants
    /\ mutant_queue = mutants
    /\ killed_mutants = <<>>
    /\ loops = <<>>
    /\ cr_pc = [w \in Workers |-> "while"]
    /\ cr_mutant = [w \in Workers |-> NoMutant]
    /\ cr_test = [w \in Workers |-> NoTest]
    /\ cr_killed = [w \in Workers |-> <<>>]
    /\ cr_todo = [w \in Workers |-> <<>>]
    /\ cr_started = <<>>
    /\ cr_runs = 0
    /\ cr_run = NoRun

\* next_mutant (lines 82-85) and the construction of the Loop, in one step
WorkerNextMutant(w) ==
    /\ UNCHANGED <<loopVars, execution>>
    /\ cr_pc[w] = "while"
    /\ mutant_queue # <<>>
    /\ \E i \in 1..Len(mutant_queue) :
          /\ cr_mutant' = [cr_mutant EXCEPT ![w] = mutant_queue[i]]
          /\ mutant_queue' = Remove(mutant_queue, mutant_queue[i])
          /\ cr_started' = Append(cr_started, mutant_queue[i])
    /\ cr_pc' = [cr_pc EXCEPT ![w] = "iterate"]
    /\ UNCHANGED <<mutants, alive_mutants, killed_mutants, loops, cr_test, cr_killed,
                   cr_todo, cr_runs, cr_run>>

\* loop.iterate() of the worker returns (lines 160-162): without a killing
\* test, and the result is appended (lines 172-177), or with one
WorkerLoopIterate(w) ==
    /\ UNCHANGED <<loopVars, execution>>
    /\ cr_pc[w] = "iterate"
    /\ cr_killed' = [cr_killed EXCEPT ![w] = <<>>]
    /\ \/ /\ cr_test' = [cr_test EXCEPT ![w] = NoTest]
          /\ loops' = Append(loops, [mutant |-> cr_mutant[w], mutant_killed |-> FALSE,
                                     killed_mutants |-> <<>>])
          /\ cr_pc' = [cr_pc EXCEPT ![w] = "while"]
       \/ /\ \E cov \in WorkerCoverages : \E em \in WorkerExitCodes \ {0} :
                cr_test' = [cr_test EXCEPT ![w] =
                               [kills_mutant |-> TRUE, result |-> TestResult(0, em),
                                coverage |-> cov]]
          /\ loops' = loops
          /\ cr_pc' = [cr_pc EXCEPT ![w] = "killed"]
    /\ UNCHANGED <<mutants, alive_mutants, mutant_queue, killed_mutants,
                   cr_mutant, cr_todo, cr_started, cr_runs, cr_run>>

\* The session of the worker killed its mutant (lines 163-168), in one step
WorkerKillAssigned(w) ==
    /\ UNCHANGED <<loopVars, execution>>
    /\ cr_pc[w] = "killed"
    /\ alive_mutants' = RemoveIfIn(alive_mutants, cr_mutant[w])
    /\ cr_killed' = [cr_killed EXCEPT
                        ![w] = Append(@, KilledMutant(cr_mutant[w], cr_test[w].result))]
    /\ killed_mutants' = Append(killed_mutants, KilledMutant(cr_mutant[w], cr_test[w].result))
    /\ cr_pc' = [cr_pc EXCEPT ![w] = "sweep_enter"]
    /\ UNCHANGED <<mutants, mutant_queue, loops, cr_mutant, cr_test, cr_todo,
                   cr_started, cr_runs, cr_run>>

\* run_against_alive_mutants of the worker: the coverage checks and the copy of
\* the alive list (lines 88-98); one iteration of the loop, the kill in one
\* step (lines 98-117); the return and the append of the result (lines 119,
\* 169-177)
WorkerSweep(w) ==
    /\ UNCHANGED <<loopVars, execution>>
    /\ \/ /\ cr_pc[w] = "sweep_enter"
          /\ IF cr_test[w].coverage.is_none \/ cr_test[w].coverage.raw_is_none
             THEN /\ cr_pc' = [cr_pc EXCEPT ![w] = "raised"]
                  /\ cr_todo' = cr_todo
             ELSE /\ cr_pc' = [cr_pc EXCEPT ![w] = "sweep"]
                  /\ cr_todo' = [cr_todo EXCEPT ![w] = alive_mutants]
          /\ UNCHANGED <<alive_mutants, mutant_queue, killed_mutants, loops, cr_killed>>
       \/ /\ cr_pc[w] = "sweep"
          /\ cr_todo[w] # <<>>
          /\ LET mutant == Head(cr_todo[w]) IN
             IF is_mutant_covered(mutant, cr_test[w].coverage)
             THEN \E ec \in WorkerExitCodes : \E em \in WorkerExitCodes :
                    LET exec_result == TestResult(ec, em) IN
                    IF SweepKills(exec_result)
                    THEN /\ alive_mutants' = RemoveIfIn(alive_mutants, mutant)
                         /\ mutant_queue' = RemoveIfIn(mutant_queue, mutant)
                         /\ cr_killed' = [cr_killed EXCEPT
                                             ![w] = Append(@, KilledMutant(mutant, exec_result))]
                         /\ killed_mutants' =
                                Append(killed_mutants, KilledMutant(mutant, exec_result))
                    ELSE UNCHANGED <<alive_mutants, mutant_queue, cr_killed, killed_mutants>>
             ELSE UNCHANGED <<alive_mutants, mutant_queue, cr_killed, killed_mutants>>
          /\ cr_todo' = [cr_todo EXCEPT ![w] = Tail(@)]
          /\ UNCHANGED <<cr_pc, loops>>
       \/ /\ cr_pc[w] = "sweep"
          /\ cr_todo[w] = <<>>
          /\ loops' = Append(loops, [mutant |-> cr_mutant[w], mutant_killed |-> TRUE,
                                     killed_mutants |-> cr_killed[w]])
          /\ cr_pc' = [cr_pc EXCEPT ![w] = "while"]
          /\ UNCHANGED <<alive_mutants, mutant_queue, killed_mutants, cr_killed, cr_todo>>
    /\ UNCHANGED <<mutants, cr_mutant, cr_test, cr_started, cr_runs, cr_run>>

ParallelNext ==
    \E w \in Workers :
        \/ WorkerNextMutant(w)
        \/ WorkerLoopIterate(w)
        \/ WorkerKillAssigned(w)
        \/ WorkerSweep(w)

SpecParallel == ParallelInit /\ [][ParallelNext]_vars

---------------------------------------------------------------------------
\* Sessions constructed on a conversation that was recorded before.

\* The conversations a session is resumed on: the empty one, or one message
\* with any tag or none
ResumeConversations ==
    {<<>>} \cup
    { <<Message(ASSISTANT, content, tag)>> :
        content \in {<<>>, <<"Some">>, CodeBlock(<<"python">>, <<"x">>),
                     WholeResponse("Test", <<"x">>), WholeResponse("Experiment", <<"x">>)},
        tag \in States \cup {None} }

\* Loop.__init__ on a recorded conversation, with a replaying endpoint
ResumeInit ==
    /\ CampaignIdle
    /\ ExecutionIdle
    /\ conversation \in ResumeConversations
    /\ experiments = <<>>
    /\ tests = <<>>
    /\ equivalence = NoClaim
    /\ settings = DefaultSettings
    /\ prompts = [system_prompt |-> FALSE]
    /\ problem = NoCalls
    /\ raw_replay_messages \in {<<>>, <<<<"Some">>>>, <<WholeResponse("Test", <<"x">>)>>}
    /\ endpoint = [replay_messages |-> raw_replay_messages, delegate |-> FALSE]
    /\ loop_pc = "iterate"
    /\ exception = ""
    /\ iterate_result = NoResult
    /\ state_returned = NotCalled

\* perform_next_step called by hand in a state iterate stops at: the dispatch
\* raises (loop.py 341-342, 353-356)
PerformNextStep ==
    /\ UNCHANGED <<campaignVars, execution>>
    /\ loop_pc = "iterate"
    /\ \E s \in {DONE, ABORTED, INVALID} : get_state(conversation) = Returns(s)
    /\ loop_pc' = "raised"
    /\ exception' = "InvalidStateException"
    /\ UNCHANGED <<conversation, experiments, tests, equivalence, settings, prompts, problem,
                   endpoint, raw_replay_messages, iterate_result, state_returned>>

\* The session is driven by iterate, or step by step with perform_next_step
ResumeNext ==
    \/ InitConversation
    \/ PromptForAction
    \/ RunExperiment
    \/ RunTest
    \/ HandleIncompleteResponse
    \/ WriteEquivalenceMessage
    \/ GetResult
    \/ PerformNextStep

SpecResume == ResumeInit /\ [][ResumeNext]_vars

---------------------------------------------------------------------------
\* Sessions of the baseline (guut/baseline_loop.py).

\* BaselineLoop._parse_response: the one section of the response
Baseline_parse_response(text) ==
    LET code_blocks == extract_markdown_code_blocks(text)
        code_blocks_with_allowed_lang == BlocksOf(code_blocks, allowed_languages)
        code_blocks_without_lang == BlocksOf(code_blocks, {<<>>})
    IN  IF EQUIVALENCE_HEADLINE_REGEX(text).matched
        THEN <<ResponseSection("equivalence", text, <<>>, <<>>)>>
        ELSE IF code_blocks_with_allowed_lang # <<>>
        THEN <<ResponseSection("test", text, code_blocks_with_allowed_lang, <<>>)>>
        ELSE IF code_blocks_without_lang # <<>>
        THEN <<ResponseSection("test", text, code_blocks_without_lang, <<>>)>>
        ELSE <<ResponseSection("none", text, <<>>, <<>>)>>

\* The value guess_action returns: the tuple (action, claim)
Tuple(guess) == [type |-> "tuple", action |-> guess.action, claim |-> guess.claim]

\* `value is None`
IsNone(value) == value.type = "None"

\* The states whose handler is _prompt_for_action in the baseline
BaselinePromptStates ==
    {INITIAL, TEST_INSTRUCTIONS_GIVEN, TEST_DOESNT_COMPILE, TEST_DOESNT_DETECT_MUTANT,
     INCOMPLETE_RESPONSE_INSTRUCTIONS_GIVEN}

\* BaselineLoop._init_conversation
BaselineInitConversation ==
    /\ UNCHANGED <<campaignVars, execution>>
    /\ Handling(EMPTY)
    /\ conversation' =
         LET c0 == IF prompts.system_prompt
                   THEN add_msg(add_msg(conversation, SystemMessage(Render("system_prompt")),
                                        None),
                                UserMessage(Render("baseline_prompt")), None)
                   ELSE conversation
         IN  add_msg(c0, UserMessage(Render("problem_template")), INITIAL)
    /\ UNCHANGED <<experiments, tests, equivalence, settings, prompts, problem, endpoint,
                   raw_replay_messages, loop_pc, exception, iterate_result, state_returned>>

\* BaselineLoop._prompt_for_action from the cleaning of the response on (lines
\* 50-61): `experiment` is what guess_action returns
BaselineClassify(content) ==
    LET response == AssistantMessage(_clean_response(content))
        relevant_text == _concat_incomplete_responses_with(conversation, response)
        raw_experiment == Baseline_parse_response(relevant_text)
        experiment == Tuple(guess_action(raw_experiment))
    IN  /\ equivalence' = equivalence
        /\ conversation' = add_msg(conversation, response,
                               IF IsNone(experiment) THEN INCOMPLETE_RESPONSE
                               ELSE TEST_STATED)

\* BaselineLoop._prompt_for_action
BaselinePromptForAction ==
    /\ UNCHANGED <<campaignVars, execution>>
    /\ loop_pc = "iterate"
    /\ \E s \in BaselinePromptStates : get_state(conversation) = Returns(s)
    /\ IF endpoint.replay_messages # <<>>
       THEN /\ endpoint' = [endpoint EXCEPT !.replay_messages = Tail(@)]
            /\ BaselineClassify(Head(endpoint.replay_messages))
            /\ UNCHANGED <<loop_pc, exception>>
       ELSE IF endpoint.delegate
       THEN /\ Len(conversation) < MaxMessages
            /\ \E content \in Responses : BaselineClassify(content)
            /\ UNCHANGED <<endpoint, loop_pc, exception>>
       ELSE /\ loop_pc' = "raised"
            /\ exception' = "Exception"
            /\ UNCHANGED <<endpoint, conversation, equivalence>>
    /\ UNCHANGED <<experiments, tests, settings, prompts, problem, raw_replay_messages,
                   iterate_result, state_returned>>

\* Loop._run_test of a BaselineLoop: self._parse_response is the override
BaselineRunTest ==
    /\ UNCHANGED <<campaignVars, execution>>
    /\ Handling(TEST_STATED)
    /\ LET relevant_text == _concat_incomplete_responses(conversation)
           test == guess_test(Baseline_parse_response(relevant_text))
       IN  IF test.type # "TestDescription"
           THEN /\ loop_pc' = "raised"
                /\ exception' = "InvalidStateException"
                /\ UNCHANGED <<conversation, tests, problem>>
           ELSE /\ \/ /\ conversation' =
                           TestLimits(
                               add_msg(conversation,
                                       UserMessage(Render("test_doesnt_compile_template")),
                                       TEST_DOESNT_COMPILE), settings)
                      /\ tests' = Append(tests, Test(test, FALSE, FALSE, TestResult(0, 0), FALSE))
                      /\ problem' = Called(problem, "validate_code")
                   \/ \E ec \in ExitCodes : \E em \in ExitCodes :
                        LET test_result == TestResult(ec, em) IN
                        /\ problem' = Called(Called(problem, "validate_code"), "run_test")
                        /\ IF TestKills(test_result)
                           THEN /\ conversation' =
                                     add_msg(conversation,
                                             UserMessage(Render("results_template")), DONE)
                                /\ tests' =
                                     Append(tests, Test(test, TRUE, TRUE, test_result, TRUE))
                           ELSE /\ conversation' =
                                     TestLimits(
                                         add_msg(conversation,
                                             UserMessage(Render("test_doesnt_detect_mutant_template")),
                                             TEST_DOESNT_DETECT_MUTANT), settings)
                                /\ tests' =
                                     Append(tests, Test(test, TRUE, TRUE, test_result, FALSE))
                /\ UNCHANGED <<loop_pc, exception>>
    /\ UNCHANGED <<experiments, equivalence, settings, prompts, endpoint,
                   raw_replay_messages, iterate_result, state_returned>>

\* BaselineLoop._perform_next_step, driven by iterate. The handler of
\* INCOMPLETE_RESPONSE is left out: no message of these sessions gets that tag.
BaselineNext ==
    \/ BaselineInitConversation
    \/ BaselinePromptForAction
    \/ BaselineRunTest
    \/ GetResult

\* BaselineLoop.__init__ with a live endpoint, on an empty conversation
BaselineInit ==
    /\ CampaignIdle
    /\ ExecutionIdle
    /\ conversation = <<>>
    /\ experiments = <<>>
    /\ tests = <<>>
    /\ equivalence = NoClaim
    /\ settings \in SettingsSet
    /\ prompts \in {[system_prompt |-> b] : b \in BOOLEAN}
    /\ problem = NoCalls
    /\ endpoint = [replay_messages |-> <<>>, delegate |-> TRUE]
    /\ raw_replay_messages = <<>>
    /\ loop_pc = "iterate"
    /\ exception = ""
    /\ iterate_result = NoResult
    /\ state_returned = Returns(None)

SpecBaseline == BaselineInit /\ [][BaselineNext]_vars

---------------------------------------------------------------------------
\* The runs of a test (guut/execution.py, guut/problem.py).

\* Output is a sequence of bytes: "x" is an ASCII byte, "C3" and "A9" are the
\* two bytes of one character ("e9").
\* bytes.decode(): UTF-8, strict
RECURSIVE decode(_)
decode(bytes) ==
    IF bytes = <<>> THEN Returns(<<>>)
    ELSE IF Head(bytes) = "C3"
    THEN IF Len(bytes) >= 2 /\ bytes[2] = "A9"
         THEN LET rest == decode(SubSeq(bytes, 3, Len(bytes)))
              IN  IF rest.raises # "" THEN rest ELSE Returns(<<"e9">> \o rest.value)
         ELSE Raises("UnicodeDecodeError")
    ELSE IF Head(bytes) = "A9" THEN Raises("UnicodeDecodeError")
    ELSE LET rest == decode(Tail(bytes))
         IN  IF rest.raises # "" THEN rest ELSE Returns(<<Head(bytes)>> \o rest.value)

\* ExecutionResult, the fields the kill rule and the messages read
ExecutionResult(output, exitcode, timeout) ==
    [output |-> output, exitcode |-> exitcode, timeout |-> timeout]

\* The test scripts: what a script writes, and whether it exits (with which
\* code) or runs on after its last write
Scripts ==
    LET outputs == {<<>>, <<"x">>, <<"C3", "A9">>, <<"x", "C3", "A9">>}
    IN  {[output |-> out, exits |-> TRUE, returncode |-> rc] :
            out \in outputs, rc \in ExitCodes}
        \cup {[output |-> out, exits |-> FALSE, returncode |-> 0] : out \in outputs}

\* Problem.run_test: run_code on the correct program, then on the mutant
ExecutionInit ==
    /\ CampaignIdle
    /\ LoopIdle
    /\ \E correct \in Scripts : \E mutant \in Scripts :
          execution = [pc |-> "communicate", scripts |-> [no |-> correct, yes |-> mutant],
                       use_mutant |-> "no", stdout |-> <<>>, timeout |-> FALSE,
                       results |-> <<>>, kills_mutant |-> FALSE]

\* process.communicate reads what the script has written to the pipe
Communicate ==
    /\ UNCHANGED <<campaignVars, loopVars>>
    /\ execution.pc = "communicate"
    /\ LET script == execution.scripts[execution.use_mutant]
           unread == Len(script.output) - Len(execution.stdout)
       IN  /\ unread > 0
           /\ \E n \in 1..MaxRead :
                 /\ n <= unread
                 /\ execution' = [execution EXCEPT
                                     !.stdout = SubSeq(script.output, 1, Len(@) + n)]

\* run_script has ended with an ExecutionResult or an exception: run_test goes
\* on with the run on the mutant, or returns the TestResult, to which
\* _run_test applies the kill rule (loop.py 522)
run_test(e, outcome) ==
    IF outcome.raises # ""
    THEN [e EXCEPT !.pc = "raised"]
    ELSE IF e.use_mutant = "no"
    THEN [e EXCEPT !.results = <<outcome.value>>, !.use_mutant = "yes", !.stdout = <<>>,
                   !.timeout = FALSE]
    ELSE [e EXCEPT !.results = Append(@, outcome.value), !.pc = "returned",
                   !.kills_mutant =
                       TestKills(TestResult(e.results[1].exitcode, outcome.value.exitcode))]

\* The try branch of run_script: the script exits, communicate returns its
\* whole output
ProcessExits ==
    /\ UNCHANGED <<campaignVars, loopVars>>
    /\ execution.pc = "communicate"
    /\ LET script == execution.scripts[execution.use_mutant]
           output == decode(execution.stdout)
       IN  /\ script.exits
           /\ execution.stdout = script.output
           /\ execution' =
                 run_test(execution,
                          IF output.raises # "" THEN output
                          ELSE Returns(ExecutionResult(output.value, script.returncode, FALSE)))

\* The except branch of run_script: communicate raises TimeoutExpired, whose
\* stdout is what was read so far (None when nothing was read, hence `or b""`)
TimeoutExpired ==
    /\ UNCHANGED <<campaignVars, loopVars>>
    /\ execution.pc = "communicate"
    /\ LET output == decode(execution.stdout)
       IN  execution' =
             run_test([execution EXCEPT !.timeout = TRUE],
                      IF output.raises # "" THEN output
                      ELSE Returns(ExecutionResult(output.value, 1, TRUE)))

ExecutionNext ==
    \/ Communicate
    \/ ProcessExits
    \/ TimeoutExpired

SpecExecution == ExecutionInit /\ [][ExecutionNext]_vars

---------------------------------------------------------------------------
\* Properties of the campaign (SpecCampaign).

\* The mutants recorded as killed
KilledSpecs == {killed_mutants[i].spec : i \in 1..Len(killed_mutants)}

\* Some line of the mutant's inclusive range [line_start, line_end] is among the
\* executed lines the coverage holds for the mutant's file.
HasExecutedLine(m, cov) ==
    /\ cov.files[m.target_path].present
    /\ \E l \in 1..m.line_end :
          l >= m.line_start /\ l \in cov.files[m.target_path].executed_lines

\* C1: at every point of a campaign over distinct mutants, alive and killed
\* together are the initial mutants, no mutant is both alive and killed, and
\* every queued mutant is alive.
C1_SchedulerInvariant ==
    /\ Elems(alive_mutants) \cup KilledSpecs = Elems(mutants)
    /\ Elems(alive_mutants) \cap KilledSpecs = {}
    /\ Elems(mutant_queue) \subseteq Elems(alive_mutants)

\* C1 witness: in the middle of a sweep, after a kill by the session and a kill
\* by the sweep, with mutants left alive and queued.
C1_Witness ==
    /\ cr_pc = "sweep"
    /\ Len(cr_killed) >= 2
    /\ mutant_queue # <<>>
    /\ cr_todo # <<>>

\* C5: a sweep re-runs the killing test only against alive mutants with an
\* executed line (of the killing test's correct run) in their range; a mutant
\* without one is not re-run and stays where it is in alive and in queue.
C5_SweepOnlyCovered ==
    [][ /\ cr_runs' > cr_runs =>
             LET m == cr_run'.mutant IN
             /\ cr_runs' = cr_runs + 1
             /\ cr_test.kills_mutant
             /\ In(m, alive_mutants)
             /\ HasExecutedLine(m, cr_test.coverage)
        /\ cr_pc \in {"sweep_enter", "sweep"} =>
             \A m \in Elems(alive_mutants) :
                 ~HasExecutedLine(m, cr_test.coverage) =>
                     /\ In(m, alive_mutants')
                     /\ In(m, mutant_queue') = In(m, mutant_queue)
                     /\ (cr_run' # cr_run => cr_run'.mutant # m)
                     /\ (cr_pc = "sweep" /\ cr_todo # <<>> /\ Head(cr_todo) = m =>
                            cr_runs' = cr_runs)
      ]_vars

\* C5 witness: a sweep has ended in which one mutant was re-run and another
\* alive mutant, without a covered line, was passed over.
C5_Witness ==
    /\ cr_pc = "sweep"
    /\ cr_todo = <<>>
    /\ cr_runs >= 1
    /\ \E m \in Elems(alive_mutants) : ~HasExecutedLine(m, cr_test.coverage)

\* C6: a candidate the re-run test kills (correct exit 0, mutant exit nonzero)
\* leaves alive and queue and is recorded in killed; a candidate it does not kill
\* keeps its place; and no session is started for a mutant that is recorded as
\* killed, nor during a sweep.
C6_SweepKill ==
    [][ /\ cr_runs' > cr_runs =>
             LET run == cr_run' IN
             IF run.result.correct = 0 /\ run.result.mutant # 0
             THEN /\ ~In(run.mutant, alive_mutants')
                  /\ ~In(run.mutant, mutant_queue')
                  /\ killed_mutants' = Append(killed_mutants, KilledMutant(run.mutant, run.result))
             ELSE /\ alive_mutants' = alive_mutants
                  /\ mutant_queue' = mutant_queue
                  /\ killed_mutants' = killed_mutants
        /\ Len(cr_started') > Len(cr_started) =>
             /\ cr_started'[Len(cr_started')] \notin KilledSpecs
             /\ cr_pc = "while"
        /\ cr_pc \in {"sweep_enter", "sweep"} => cr_started' = cr_started
      ]_vars

\* C6 witness (scenario E): three mutants; the first session killed its target,
\* the sweep re-ran the test against one other mutant and killed it, and passed
\* over the third; no second session was started.
C6_Witness ==
    /\ Len(mutants) = 3
    /\ cr_pc = "append"
    /\ Len(cr_started) = 1
    /\ cr_runs = 1
    /\ Len(cr_killed) = 2
    /\ cr_killed[2].spec = cr_run.mutant
    /\ Len(alive_mutants) = 1

\* C7: a session without a killing test leaves alive, queue and killed as they
\* are, with its target alive and not queued; the campaign then goes on with the
\* next queued mutant; and no mutant is the target of two sessions.
C7_FailedSession ==
    /\ [][ \/ (cr_pc = "iterate" /\ cr_pc' = "append")
            \/ (cr_pc = "append" /\ ~cr_test.kills_mutant)
            =>
               /\ alive_mutants' = alive_mutants
               /\ mutant_queue' = mutant_queue
               /\ killed_mutants' = killed_mutants
               /\ In(cr_started[Len(cr_started)], alive_mutants')
               /\ ~In(cr_started[Len(cr_started)], mutant_queue')
               /\ cr_pc' \in {"append", "while"}
          ]_vars
    /\ [](cr_pc = "while" /\ mutant_queue # <<>> => ENABLED NextMutant)
    /\ [](\A i \in 1..Len(cr_started) : \A j \in 1..Len(cr_started) :
              i # j => cr_started[i] # cr_started[j])

\* C7 witness: the campaign is over; a session failed, its target is still
\* alive, and a later session was run.
C7_Witness ==
    /\ cr_pc = "finished"
    /\ Len(loops) >= 2
    /\ ~loops[1].mutant_killed
    /\ In(loops[1].mutant, alive_mutants)

---------------------------------------------------------------------------
\* Properties of get_state (SpecGetState).

\* The state a conversation is said to be in: EMPTY when it is empty, the state
\* its last tag names, INVALID when that tag names none
NamedState(conv) ==
    IF conv = <<>> THEN EMPTY
    ELSE IF Last(conv).tag \in States THEN Last(conv).tag
    ELSE INVALID

\* C4: get_state returns EMPTY for an empty conversation, else the State named
\* by the tag of the last message, and INVALID when the last message is untagged
\* or its tag names no state; no other message matters. (It raises ValueError
\* for a tag that is true and names no state.)
C4_GetState ==
    state_returned # NotCalled => state_returned = Returns(NamedState(conversation))

---------------------------------------------------------------------------
\* Properties of a session (SpecSession).

\* A step of _run_test that records a test
RunTestStep == Len(tests') = Len(tests) + 1

\* The tags of the messages a step appends
Appended(i) == conversation'[Len(conversation) + i].tag

\* C2, as stated: a valid test is recorded with kills_mutant iff its correct run
\* exits 0 and its mutant run exits nonzero; when the correct run exits nonzero,
\* kills_mutant is false and the next state is TEST_DOESNT_DETECT_MUTANT.
C2_NextStateAsStated ==
    [][RunTestStep =>
         LET t == Last(tests') IN
         /\ t.valid => (t.kills_mutant <=> (t.result.correct = 0 /\ t.result.mutant # 0))
         /\ (t.valid /\ t.result.correct # 0) =>
               /\ ~t.kills_mutant
               /\ get_state(conversation') = Returns(TEST_DOESNT_DETECT_MUTANT)]_vars

\* C2, amended: the kill rule as stated; when the correct run exits nonzero,
\* kills_mutant is false and the message appended first is tagged
\* TEST_DOESNT_DETECT_MUTANT. That is the next state unless a limit message
\* follows it: ABORTED when the turns (messages tagged EXPERIMENT_STATED or
\* TEST_STATED) have reached max_num_turns or the tests exceed
\* max_retries_for_invalid_test, else TEST_INSTRUCTIONS_GIVEN when the turns
\* equal test_inctructions_after_turn.
C2_KillRule ==
    [][RunTestStep =>
         LET t == Last(tests')
             num_tests == Cardinality({i \in 1..Len(conversation) :
                                          conversation[i].tag = TEST_STATED})
             num_turns == num_tests +
                          Cardinality({i \in 1..Len(conversation) :
                                          conversation[i].tag = EXPERIMENT_STATED})
             next == get_state(conversation')
         IN
         /\ t.valid => (t.kills_mutant <=> (t.result.correct = 0 /\ t.result.mutant # 0))
         /\ (t.valid /\ t.result.correct # 0) =>
               /\ ~t.kills_mutant
               /\ Appended(1) = TEST_DOESNT_DETECT_MUTANT
               /\ IF \/ num_turns >= settings.max_num_turns
                     \/ num_tests > settings.max_retries_for_invalid_test
                  THEN next = Returns(ABORTED)
                  ELSE IF num_turns = settings.test_inctructions_after_turn
                  THEN next = Returns(TEST_INSTRUCTIONS_GIVEN)
                  ELSE next = Returns(TEST_DOESNT_DETECT_MUTANT)]_vars

\* A valid test failed on the correct program and on the mutant, and the
\* session goes on from TEST_DOESNT_DETECT_MUTANT.
C2_Witness ==
    /\ get_state(conversation) = Returns(TEST_DOESNT_DETECT_MUTANT)
    /\ tests # <<>>
    /\ Last(tests).valid
    /\ Last(tests).result.correct # 0
    /\ Last(tests).result.mutant # 0
    /\ ~Last(tests).kills_mutant

\* C3: in a session started from an empty or INITIAL conversation, the state is
\* DONE exactly when a recorded test kills the mutant; the Result iterate
\* returns has mutant_killed iff the final state is DONE, and never when it is
\* ABORTED.
C3_DoneIffKilled ==
    /\ (get_state(conversation) = Returns(DONE)) <=>
           (\E i \in 1..Len(tests) : tests[i].kills_mutant)
    /\ loop_pc = "returned" =>
           /\ iterate_result.mutant_killed <=> (get_state(conversation) = Returns(DONE))
           /\ get_state(conversation) = Returns(ABORTED) => ~iterate_result.mutant_killed

\* iterate returned from DONE with mutant_killed, after a test that did not kill.
C3_Witness ==
    /\ loop_pc = "returned"
    /\ get_state(conversation) = Returns(DONE)
    /\ iterate_result.mutant_killed
    /\ Len(tests) >= 2
    /\ ~tests[1].kills_mutant

---------------------------------------------------------------------------
\* Properties of the parser in a session (SpecReplay).

\* A step of _prompt_for_action that appends the response
PromptStep ==
    /\ Len(conversation') = Len(conversation) + 1
    /\ Last(conversation').role = ASSISTANT

\* The sections of the text _prompt_for_action parsed in the step
ParsedSections == _parse_response(_concat_incomplete_responses(conversation'))

\* Some section of a kind holds a code block
HasCodeSection(sections, kind) ==
    \E i \in 1..Len(sections) : sections[i].kind = kind /\ sections[i].code_blocks # <<>>

\* C8: the action follows the priority test > experiment > observation >
\* kindless, whatever the order of the sections: a text with a test section
\* with a code block gives a Test (state TEST_STATED), and without one, an
\* experiment section with code gives an experiment even when an observation
\* section has code. (A section whose last code block is empty stops the
\* resolution: no action is found.)
C8_Priority ==
    [][PromptStep =>
         LET action == guess_action(ParsedSections).action IN
         /\ HasCodeSection(ParsedSections, "test") =>
               /\ action.type = "TestDescription"
               /\ Last(conversation').tag = TEST_STATED
         /\ (~HasCodeSection(ParsedSections, "test")
               /\ HasCodeSection(ParsedSections, "experiment")) =>
               /\ action.type = "ExperimentDescription"
               /\ action.kind = "experiment"
               /\ Last(conversation').tag = EXPERIMENT_STATED]_vars

\* The code blocks of a list of sections
RECURSIVE CodeBlocksOf(_)
CodeBlocksOf(sections) ==
    IF sections = <<>> THEN <<>>
    ELSE Head(sections).code_blocks \o CodeBlocksOf(Tail(sections))

\* Some message already in the conversation is tagged TEST_INSTRUCTIONS_GIVEN
InstructionsGiven ==
    \E i \in 1..Len(conversation) : conversation[i].tag = TEST_INSTRUCTIONS_GIVEN

FallbackTag == IF InstructionsGiven THEN TEST_STATED ELSE EXPERIMENT_STATED

LastKindless(sections) ==
    sections[CHOOSE i \in 1..Len(sections) :
                /\ sections[i].kind = "none" /\ sections[i].code_blocks # <<>>
                /\ \A j \in (i+1)..Len(sections) :
                      ~(sections[j].kind = "none" /\ sections[j].code_blocks # <<>>)]

\* The text parsed has code in a section without a headline only, and the last
\* code block of the last such section is not empty
KindlessCodeOnly(sections) ==
    /\ ~HasCodeSection(sections, "test")
    /\ ~HasCodeSection(sections, "experiment")
    /\ ~HasCodeSection(sections, "observation")
    /\ HasCodeSection(sections, "none")
    /\ Last(LastKindless(sections).code_blocks) # <<>>

IsSplit(raw) ==
    \E word \in HeadlineWordsOfActions : \E code \in CodeTexts : raw \in Splits(word, code)

\* The action of a response submitted whole
WholeAction(content) == guess_action(_parse_response(_clean_response(content))).action

\* C10: a response with one valid action, split at two points inside its code
\* block, arrives as two INCOMPLETE_RESPONSE messages and a completing message,
\* and the concatenation parses to the action of the whole response: the same
\* kind and the same code. (Each cut adds a line break, and a piece loses its
\* trailing blank lines.)
C10_SplitParsesAsWhole ==
    (/\ IsSplit(raw_replay_messages)
     /\ endpoint.replay_messages = <<>>
     /\ loop_pc = "iterate"
     /\ Last(conversation).role = ASSISTANT)
    => LET n == Len(conversation)
           joined == guess_action(
                         _parse_response(_concat_incomplete_responses(conversation))).action
           whole == WholeAction(raw_replay_messages[1] \o raw_replay_messages[2]
                                    \o raw_replay_messages[3])
       IN  /\ conversation[n-4].tag = INCOMPLETE_RESPONSE
           /\ conversation[n-2].tag = INCOMPLETE_RESPONSE
           /\ joined.type = whole.type
           /\ joined.kind = whole.kind
           /\ joined.code = whole.code

---------------------------------------------------------------------------
\* Properties of a response that arrives in pieces (SpecReplay).

\* The raw messages are a test response cut once inside its code block
IsCutTest(raw) == \E code \in CodeTexts : raw \in Cuts("Test", code)

\* The cut falls inside a line of the code: the first piece does not end with a
\* line break and the second does not start with one
CutInsideLine(raw) == Last(raw[1]) # NL /\ Head(raw[2]) # NL

\* C11: starting in INITIAL, a test reply cut inside its code block, at a line
\* end or inside a line, arrives in two turns. The first is tagged
\* INCOMPLETE_RESPONSE and answered with the instructions to continue; the
\* session goes on until the second turn is classified, and that turn is tagged
\* TEST_STATED.
C11_CutTestReachesTestStated ==
    (IsCutTest(raw_replay_messages) /\ conversation[1].tag = INITIAL) =>
        /\ Len(conversation) >= 2 =>
              conversation[2].role = ASSISTANT /\ conversation[2].tag = INCOMPLETE_RESPONSE
        /\ Len(conversation) >= 3 =>
              conversation[3].tag = INCOMPLETE_RESPONSE_INSTRUCTIONS_GIVEN
        /\ Len(conversation) >= 4 =>
              conversation[4].role = ASSISTANT /\ conversation[4].tag = TEST_STATED
        /\ Len(conversation) < 4 =>
              /\ loop_pc = "iterate"
              /\ endpoint.replay_messages # <<>>
              /\ get_state(conversation).value \in
                    {INITIAL, INCOMPLETE_RESPONSE, INCOMPLETE_RESPONSE_INSTRUCTIONS_GIVEN}

\* The second turn of a test reply cut inside a line of its code was classified:
\* the state is TEST_STATED.
C11_Witness ==
    /\ IsCutTest(raw_replay_messages)
    /\ CutInsideLine(raw_replay_messages)
    /\ Len(conversation) = 4
    /\ conversation[1].tag = INITIAL
    /\ conversation[2].tag = INCOMPLETE_RESPONSE
    /\ get_state(conversation) = Returns(TEST_STATED)

---------------------------------------------------------------------------
\* Properties of the retry counters (SpecSession).

\* The session was started from an empty conversation
FromEmpty == conversation = <<>> \/ conversation[1].role # ASSISTANT

\* The responses of the model in the conversation, and those with a given tag
NumResponses == Cardinality({i \in 1..Len(conversation) : conversation[i].role = ASSISTANT})
NumTagged(tags) == Cardinality({i \in 1..Len(conversation) : conversation[i].tag \in tags})

\* The responses the counters of the settings allow: every turn, and every
\* incomplete response up to the one that exceeds its counter
Budget ==
    (IF settings.max_num_turns > 1 THEN settings.max_num_turns ELSE 1)
    + settings.max_num_incomplete_responses + 1

\* C12: every recoverable outcome consumes a bounded retry counter, so a
\* session started from an empty conversation ends after a number of responses
\* the counters bound, whatever the responses are: the model is never asked
\* for more responses than the counters allow. (An equivalence claim consumes
\* no counter.)
C12_BoundedByCounters == FromEmpty => NumResponses <= Budget

\* The responses other than equivalence claims stay within the counters
C12_BoundedButEquivalence ==
    FromEmpty => NumResponses - NumTagged({CLAIMED_EQUIVALENT}) <= Budget

\* A step of the handler of a state
HandlerStep(state) == Handling(state) /\ conversation' # conversation

\* C13: in state INCOMPLETE_RESPONSE the handler appends one message: ABORTED
\* with reason incomplete_response when the messages tagged INCOMPLETE_RESPONSE
\* outnumber max_num_incomplete_responses, and the instructions to continue
\* (INCOMPLETE_RESPONSE_INSTRUCTIONS_GIVEN) otherwise. With budget N it aborts
\* on the (N+1)-th incomplete response and not before.
C13_IncompleteBudget ==
    [][HandlerStep(INCOMPLETE_RESPONSE) =>
         LET num_tries == NumTagged({INCOMPLETE_RESPONSE})
             budget == settings.max_num_incomplete_responses
         IN  /\ Len(conversation') = Len(conversation) + 1
             /\ SubSeq(conversation', 1, Len(conversation)) = conversation
             /\ IF num_tries > budget
                THEN Last(conversation') =
                        Message(USER, <<"conversation_aborted_template", "incomplete_response">>,
                                ABORTED)
                ELSE Last(conversation').tag = INCOMPLETE_RESPONSE_INSTRUCTIONS_GIVEN
             /\ Last(conversation').tag = ABORTED <=> num_tries = budget + 1
             /\ UNCHANGED <<tests, experiments, loop_pc>>]_vars

\* With a budget of at least one, the session was aborted on the incomplete
\* response after the budget, the earlier ones having been answered with
\* instructions.
C13_Witness ==
    /\ settings.max_num_incomplete_responses >= 1
    /\ get_state(conversation) = Returns(ABORTED)
    /\ Last(conversation).content = <<"conversation_aborted_template", "incomplete_response">>
    /\ NumTagged({INCOMPLETE_RESPONSE}) = settings.max_num_incomplete_responses + 1
    /\ NumTagged({INCOMPLETE_RESPONSE_INSTRUCTIONS_GIVEN}) =
          settings.max_num_incomplete_responses

\* The message conversation_aborted_template renders for a reason, tagged ABORTED
AbortedMessage(reason) ==
    Message(USER, <<"conversation_aborted_template", reason>>, ABORTED)

\* The tags of the messages a step appends
AppendedTags ==
    [i \in 1..(Len(conversation') - Len(conversation)) |-> Appended(i)]

\* The step recorded a test that kills the mutant
KillingTestStep == Handling(TEST_STATED) /\ RunTestStep /\ Last(tests').kills_mutant

FailedTestStep == HandlerStep(TEST_STATED) /\ RunTestStep /\ ~Last(tests').kills_mutant

\* C15, as stated: after a test that does not compile or does not kill the
\* mutant, the session goes to ABORTED with reason max_invalid_tests if the
\* tests stated exceed max_retries_for_invalid_test, and otherwise the model is
\* prompted again; with budget N at most N+1 tests are run in a session.
C15_RetryLimitAsStated ==
    [][FailedTestStep =>
         /\ IF NumTagged({TEST_STATED}) > settings.max_retries_for_invalid_test
            THEN Last(conversation') = AbortedMessage("max_invalid_tests")
            ELSE get_state(conversation').value \in PromptStates
         /\ Len(tests') <= settings.max_retries_for_invalid_test + 1]_vars

\* C15, amended: after such a test, unless the turns have reached
\* max_num_turns (then the session is ABORTED with reason too_many_turns), the
\* session goes to ABORTED with reason max_invalid_tests if the tests stated
\* exceed max_retries_for_invalid_test, and otherwise to a state in which the
\* model is prompted again; with budget N a session records at most N+1 tests.
C15_RetryLimit ==
    [][FailedTestStep =>
         /\ IF NumTagged({EXPERIMENT_STATED, TEST_STATED}) >= settings.max_num_turns
            THEN Last(conversation') = AbortedMessage("too_many_turns")
            ELSE IF NumTagged({TEST_STATED}) > settings.max_retries_for_invalid_test
            THEN Last(conversation') = AbortedMessage("max_invalid_tests")
            ELSE get_state(conversation').value \in
                    {TEST_DOESNT_COMPILE, TEST_DOESNT_DETECT_MUTANT, TEST_INSTRUCTIONS_GIVEN}
         /\ Len(tests') <= settings.max_retries_for_invalid_test + 1]_vars

\* With a budget of one retry, the second test failed and the session was
\* aborted for max_invalid_tests before the turn limit.
C15_Witness ==
    /\ settings.max_retries_for_invalid_test = 1
    /\ Len(tests) = 2
    /\ ~Last(tests).kills_mutant
    /\ NumTagged({EXPERIMENT_STATED, TEST_STATED}) < settings.max_num_turns
    /\ Last(conversation) = AbortedMessage("max_invalid_tests")

\* The experiments stated reach the cap, or the turns the turn of the test
\* instructions
InstructionsDue ==
    \/ NumTagged({EXPERIMENT_STATED}) = settings.max_num_experiments
    \/ NumTagged({EXPERIMENT_STATED, TEST_STATED}) = settings.test_inctructions_after_turn

C17_ExperimentBeyondCap ==
    [][HandlerStep(EXPERIMENT_STATED) =>
         (NumTagged({EXPERIMENT_STATED}) > settings.max_num_experiments =>
            get_state(conversation') = Returns(ABORTED))]_vars

\* Off the turn of the test instructions, an experiment beyond the cap ends in
\* ABORTED
C17_BeyondCapOffInstructionTurn ==
    [][HandlerStep(EXPERIMENT_STATED) =>
         ((/\ NumTagged({EXPERIMENT_STATED}) > settings.max_num_experiments
           /\ NumTagged({EXPERIMENT_STATED, TEST_STATED}) # settings.test_inctructions_after_turn)
          => get_state(conversation') = Returns(ABORTED))]_vars

---------------------------------------------------------------------------
\* Properties of the handlers (SpecSession).

\* The tag _prompt_for_action gives a response, from the text it parses
TagOfResponse ==
    LET guess == guess_action(ParsedSections)
    IN  ResponseTag(guess.action, guess.claim, InstructionsGiven)

\* C18: an equivalence claim never ends a session. From CLAIMED_EQUIVALENT the
\* one step is to EQUIVALENCE_MESSAGE_GIVEN: one informational message is
\* appended, nothing is recorded and iterate goes on. From
\* EQUIVALENCE_MESSAGE_GIVEN the one step is a prompt of the model, whose
\* response is tagged as in any other prompting state.
C18_EquivalenceGoesOn ==
    [][/\ Handling(CLAIMED_EQUIVALENT) =>
            /\ conversation' =
                  Append(conversation,
                         Message(USER, <<"equivalence_claim_template">>,
                                 EQUIVALENCE_MESSAGE_GIVEN))
            /\ UNCHANGED <<tests, experiments, loop_pc, iterate_result>>
       /\ Handling(EQUIVALENCE_MESSAGE_GIVEN) =>
            /\ PromptStep
            /\ Last(conversation').tag = TagOfResponse
            /\ UNCHANGED <<tests, experiments, loop_pc, iterate_result>>]_vars

\* After an equivalence claim and the message that answers it, the model
\* stated a test.
C18_Witness ==
    /\ Len(conversation) >= 3
    /\ conversation[Len(conversation) - 2].tag = CLAIMED_EQUIVALENT
    /\ conversation[Len(conversation) - 1].tag = EQUIVALENCE_MESSAGE_GIVEN
    /\ get_state(conversation) = Returns(TEST_STATED)
    /\ loop_pc = "iterate"

\* A step of _run_experiment or _run_test on code that fails validation
InvalidExperimentStep ==
    /\ HandlerStep(EXPERIMENT_STATED)
    /\ Len(experiments') = Len(experiments) + 1
    /\ ~Last(experiments').valid
InvalidTestStep == HandlerStep(TEST_STATED) /\ RunTestStep /\ ~Last(tests').valid

\* The step called validate_code once and neither run_experiment nor run_test
SandboxNotInvoked ==
    problem' = [problem EXCEPT !.validate_code = @ + 1]

\* Every record has a result iff its code was valid, and a test without a
\* result does not kill the mutant
ResultIffValid ==
    /\ \A i \in 1..Len(experiments') : experiments'[i].has_result <=> experiments'[i].valid
    /\ \A i \in 1..Len(tests') :
          /\ tests'[i].has_result <=> tests'[i].valid
          /\ ~tests'[i].has_result => ~tests'[i].kills_mutant

\* C19, as stated: when the code of an experiment or of a test fails
\* validation, the sandbox is not invoked, the next state is
\* EXPERIMENT_DOESNT_COMPILE respectively TEST_DOESNT_COMPILE, and exactly one
\* record is appended, whose result is null (and kills_mutant false for a
\* test); a record has a null result iff its validation failed.
C19_DoesntCompileAsStated ==
    [][/\ InvalidExperimentStep =>
            /\ SandboxNotInvoked
            /\ get_state(conversation') = Returns(EXPERIMENT_DOESNT_COMPILE)
            /\ ~Last(experiments').has_result
            /\ tests' = tests
       /\ InvalidTestStep =>
            /\ SandboxNotInvoked
            /\ get_state(conversation') = Returns(TEST_DOESNT_COMPILE)
            /\ ~Last(tests').has_result /\ ~Last(tests').kills_mutant
            /\ experiments' = experiments
       /\ ResultIffValid]_vars

\* C19, amended: in that case the sandbox is not invoked, the message appended
\* first is tagged EXPERIMENT_DOESNT_COMPILE respectively TEST_DOESNT_COMPILE,
\* and it is the next state unless a limit message (ABORTED or
\* TEST_INSTRUCTIONS_GIVEN) follows it in the same step; exactly one record is
\* appended, whose result is null (and kills_mutant false for a test); a
\* record has a null result iff its validation failed.
C19_DoesntCompile ==
    [][/\ InvalidExperimentStep =>
            /\ SandboxNotInvoked
            /\ AppendedTags[1] = EXPERIMENT_DOESNT_COMPILE
            /\ \A i \in 2..Len(AppendedTags) :
                  AppendedTags[i] \in {ABORTED, TEST_INSTRUCTIONS_GIVEN}
            /\ ~Last(experiments').has_result
            /\ tests' = tests
       /\ InvalidTestStep =>
            /\ SandboxNotInvoked
            /\ AppendedTags[1] = TEST_DOESNT_COMPILE
            /\ \A i \in 2..Len(AppendedTags) :
                  AppendedTags[i] \in {ABORTED, TEST_INSTRUCTIONS_GIVEN}
            /\ ~Last(tests').has_result /\ ~Last(tests').kills_mutant
            /\ experiments' = experiments
       /\ ResultIffValid]_vars

\* A test that does not compile was recorded without a result after an
\* experiment that ran, and the state is TEST_DOESNT_COMPILE: validate_code was
\* called twice, run_experiment once, run_test never.
C19_Witness ==
    /\ get_state(conversation) = Returns(TEST_DOESNT_COMPILE)
    /\ Len(tests) = 1 /\ ~tests[1].valid /\ ~tests[1].has_result
    /\ Len(experiments) = 1 /\ experiments[1].valid /\ experiments[1].has_result
    /\ problem.validate_code = 2 /\ problem.run_experiment = 1 /\ problem.run_test = 0

---------------------------------------------------------------------------
\* Properties of responses without an action (SpecReplay).

\* Some section of the text is an equivalence claim
ClaimFound(sections) == \E i \in 1..Len(sections) : sections[i].kind = "equivalence"

\* A response that is one test, experiment or observation section holding a
\* debugger script and no code
DebuggerOnlyTexts ==
    { _clean_response(Lines(<<Headline(2, <<word>>), CodeBlock(<<"pdb">>, <<"y">>)>>)) :
        word \in HeadlineWordsOfActions }

\* C20: when the combined text of a response yields no action, the response is
\* tagged CLAIMED_EQUIVALENT if an equivalence claim was found in it and
\* INCOMPLETE_RESPONSE otherwise; a response that is a test, experiment or
\* observation section with only a debugger script block is tagged
\* INCOMPLETE_RESPONSE.
C20_NoAction ==
    [][PromptStep =>
         /\ guess_action(ParsedSections).action = NoAction =>
               Last(conversation').tag =
                  IF ClaimFound(ParsedSections) THEN CLAIMED_EQUIVALENT
                  ELSE INCOMPLETE_RESPONSE
         /\ (/\ Last(conversation').content \in DebuggerOnlyTexts
             /\ NumTagged({INCOMPLETE_RESPONSE}) = 0) =>
               Last(conversation').tag = INCOMPLETE_RESPONSE]_vars

\* A test section with only a debugger script was tagged INCOMPLETE_RESPONSE.
C20_Witness ==
    /\ Len(conversation) = 2
    /\ conversation[2].content =
          _clean_response(Lines(<<Headline(2, <<"Test">>), CodeBlock(<<"pdb">>, <<"y">>)>>))
    /\ get_state(conversation) = Returns(INCOMPLETE_RESPONSE)

---------------------------------------------------------------------------
\* Debugger scripts (SpecReplay).

\* A step of _run_experiment that records an experiment
RunExperimentStep == Len(experiments') = Len(experiments) + 1

\* The experiment or observation section the action of the text is taken from,
\* when no test section holds code
ExperimentSection(sections) ==
    IF HasCodeSection(sections, "experiment")
    THEN _guess_section(sections, "experiment")[1]
    ELSE _guess_section(sections, "observation")[1]

\* C21: a debugger script goes with experiments and observations only. When
\* the action comes from an experiment or observation section, the experiment
\* recorded carries the last debugger block of that section, or none where the
\* section has none, and run_experiment is handed the same script; a step that
\* records a test calls run_experiment not at all, hands no debugger script to
\* the problem, and the test recorded has no debugger script.
C21_DebuggerOnlyForExperiments ==
    [][/\ RunExperimentStep =>
            LET sections == _parse_response(_concat_incomplete_responses(conversation))
                section == ExperimentSection(sections)
                recorded == Last(experiments')
                script == IF section.debugger_blocks # <<>>
                          THEN <<Last(section.debugger_blocks)>> ELSE <<>>
            IN  (/\ ~HasCodeSection(sections, "test")
                 /\ HasCodeSection(sections, "experiment")
                        \/ HasCodeSection(sections, "observation"))
                => /\ recorded.has_debugger_script = (script # <<>>)
                   /\ script # <<>> => recorded.debugger_script = script[1]
                   /\ problem'.debugger_scripts =
                        IF problem'.run_experiment = problem.run_experiment + 1
                        THEN problem.debugger_scripts \o script
                        ELSE problem.debugger_scripts
       /\ RunTestStep =>
            /\ problem'.debugger_scripts = problem.debugger_scripts
            /\ problem'.run_experiment = problem.run_experiment
            /\ "debugger_script" \notin DOMAIN Last(tests')]_vars

\* An experiment ran with the debugger script of its section, and then a test
\* whose section holds a debugger block ran without one
C21_Witness ==
    /\ experiments # <<>>
    /\ Last(experiments).has_debugger_script
    /\ problem.debugger_scripts = <<Last(experiments).debugger_script>>
    /\ tests # <<>>
    /\ problem.run_test = 1
    /\ LET sections == _parse_response(conversation[Len(conversation) - 1].content)
       IN  \E i \in 1..Len(sections) :
               sections[i].kind = "test" /\ sections[i].debugger_blocks # <<>>

---------------------------------------------------------------------------
\* Code blocks without a language (SpecReplay).

\* The text holds code blocks, all of them without a language and not empty
UntaggedOnly(text) ==
    LET blocks == extract_markdown_code_blocks(text)
    IN  /\ blocks # <<>>
        /\ \A i \in 1..Len(blocks) : blocks[i].language = <<>> /\ blocks[i].code # <<>>

\* The kinds of the headlines of a text
HeadlineKinds(text) ==
    {HeadlineOf(splitlines(text)[i]).kind : i \in 1..Len(splitlines(text))} \ {"none"}

\* The response was taken for an action
TakenForAction == Last(conversation').tag \in {EXPERIMENT_STATED, TEST_STATED}

\* C22: a code block without a language is executable code in a text without
\* headlines, and is no code in a test, experiment or observation section:
\* a text whose only code blocks carry no language is taken for an action when
\* it has no headline, and is not when it has a test, experiment or observation
\* headline.
C22_UntaggedBlock ==
    [][PromptStep =>
         LET text == _concat_incomplete_responses(conversation')
         IN  UntaggedOnly(text) =>
               /\ HeadlineKinds(text) = {} => TakenForAction
               /\ HeadlineKinds(text) \cap {"test", "experiment", "observation"} # {}
                     => ~TakenForAction]_vars

\* What the parser does: a text whose only code blocks carry no language is
\* never taken for an action
C22_UntaggedNeverCode ==
    [][PromptStep =>
         (UntaggedOnly(_concat_incomplete_responses(conversation')) => ~TakenForAction)]_vars

---------------------------------------------------------------------------
\* Missing coverage (SpecCampaign).

\* The correct run of the killing test carries no coverage data
CoverageMissing == cr_test.coverage.is_none \/ cr_test.coverage.raw_is_none

\* C23: when the correct run of the killing test carries no coverage data, the
\* sweep raises before the test is run against any alive mutant and leaves the
\* three lists alone; nothing follows the exception in generate_tests (no
\* result is appended, no further mutant is taken), and the sweep never works
\* on a test without coverage data.
C23_NoCoverageIsFatal ==
    [][/\ (cr_pc = "sweep_enter" /\ CoverageMissing) =>
            /\ cr_pc' = "raised"
            /\ cr_runs' = 0
            /\ UNCHANGED <<alive_mutants, mutant_queue, killed_mutants, loops>>
       /\ cr_pc # "raised"
       /\ cr_pc' = "sweep" => ~CoverageMissing']_vars

\* The sweep raised for a test without coverage data while another mutant was
\* alive, and no run was made
C23_Witness ==
    /\ cr_pc = "raised"
    /\ cr_test.coverage.is_none
    /\ alive_mutants # <<>>
    /\ cr_runs = 0
    /\ Len(loops) < Len(cr_started)

---------------------------------------------------------------------------
\* Termination of the campaign (SpecCampaignFair).

\* C24 as stated: with every session terminating, generate_tests ends with an
\* empty queue.
C24_EndsWithEmptyQueue == <>(cr_pc = "finished" /\ mutant_queue = <<>>)

\* C24: with every session terminating, generate_tests ends: with an empty
\* queue, or with the exception of a sweep whose test has no coverage data.
\* Each iteration takes one mutant from the queue and no step adds one, so the
\* sessions started never outnumber the mutants; once the generator is
\* exhausted the alive and killed lists are those of the last iteration, they
\* partition the mutants, and they change no more.
C24_Terminates ==
    /\ <>(cr_pc \in {"finished", "raised"})
    /\ [](cr_pc = "finished" =>
            /\ mutant_queue = <<>>
            /\ Len(loops) = Len(cr_started)
            /\ Len(loops) <= Len(mutants)
            /\ Elems(alive_mutants) \cup KilledSpecs = Elems(mutants)
            /\ Elems(alive_mutants) \cap KilledSpecs = {})
    /\ [](cr_pc = "raised" => CoverageMissing)
    /\ [][/\ Len(mutant_queue') <= Len(mutant_queue)
          /\ Elems(mutant_queue') \subseteq Elems(mutant_queue)
          /\ Len(cr_started') > Len(cr_started) => Len(mutant_queue') < Len(mutant_queue)
          /\ cr_pc # "finished"]_vars

\* The campaign ended with an empty queue after as many sessions as there are
\* mutants, some mutant killed and some alive
C24_Witness ==
    /\ cr_pc = "finished"
    /\ mutant_queue = <<>>
    /\ Len(loops) = Len(mutants)
    /\ Len(mutants) = MaxMutants
    /\ alive_mutants # <<>>
    /\ killed_mutants # <<>>

---------------------------------------------------------------------------
\* Timeouts of a test run (SpecExecution).

\* The kill rule on the two runs of a test, with a run that timed out counted
\* as a run that failed
TimeoutKillRule ==
    execution.pc = "returned" =>
        LET correct == execution.results[1]
            mutant == execution.results[2]
        IN  /\ execution.kills_mutant <=> (correct.exitcode = 0 /\ mutant.exitcode # 0)
            /\ (mutant.timeout /\ correct.exitcode = 0) => execution.kills_mutant
            /\ correct.timeout => ~execution.kills_mutant

\* A run that timed out is a result flagged timeout with a nonzero exit code
TimeoutIsData ==
    \A i \in 1..Len(execution.results) :
        execution.results[i].timeout => execution.results[i].exitcode # 0

\* C25: a run that exceeds its timeout never raises; it returns a result with
\* timeout = true and a nonzero exit code, which the kill rule counts as a
\* failed run: a timeout of the mutant run after a correct run that exits 0
\* kills the mutant, a timeout of the correct run never kills.
C25_TimeoutNeverRaises ==
    /\ ~(execution.pc = "raised" /\ execution.timeout)
    /\ TimeoutIsData
    /\ TimeoutKillRule

\* What holds of the timeouts that do return
C25_TimeoutThatReturns == TimeoutIsData /\ TimeoutKillRule

---------------------------------------------------------------------------
\* Sessions resumed in any state (SpecResume).

\* The action of the text the run handlers decode
RelevantAction == guess_action(_parse_response(_concat_incomplete_responses(conversation))).action

\* The handler raised InvalidStateException and left the session as it was
RaisesInvalidState ==
    /\ loop_pc' = "raised"
    /\ exception' = "InvalidStateException"
    /\ UNCHANGED <<conversation, experiments, tests, problem, endpoint, iterate_result>>

\* C26: in state EXPERIMENT_STATED or TEST_STATED with a text that holds no
\* action, the run handler raises InvalidStateException: no message is
\* appended, no record is added, the problem is not called, the state stays
\* what it was (not ABORTED), and nothing follows the exception.
C26_NoActionRaises ==
    [][/\ \A s \in {EXPERIMENT_STATED, TEST_STATED} :
            (Handling(s) /\ RelevantAction = NoAction) => RaisesInvalidState
       /\ loop_pc # "raised"]_vars

\* A session resumed in TEST_STATED on a text without code raised
C26_Witness ==
    /\ loop_pc = "raised"
    /\ exception = "InvalidStateException"
    /\ conversation = <<Message(ASSISTANT, <<"Some">>, TEST_STATED)>>
    /\ tests = <<>>
    /\ problem = NoCalls

---------------------------------------------------------------------------
\* The conversation as a log (SpecSession).

\* xs is a prefix of ys
IsPrefix(xs, ys) == Len(xs) <= Len(ys) /\ SubSeq(ys, 1, Len(xs)) = xs

\* C27: the conversation is append-only. Across every step of the session the
\* conversation before the step is a prefix of the conversation after it: no
\* message is removed, moved, or changed in role, content or tag.
C27_AppendOnly == [][IsPrefix(conversation, conversation')]_vars

\* A session that went through the first prompts, a response, an experiment,
\* the test instructions and a test
C27_Witness ==
    /\ Len(conversation) >= 7
    /\ conversation[3].tag = INITIAL
    /\ NumTagged({EXPERIMENT_STATED}) >= 1
    /\ NumTagged({TEST_INSTRUCTIONS_GIVEN}) >= 1
    /\ NumTagged({TEST_STATED}) >= 1

---------------------------------------------------------------------------
\* The campaign run by parallel workers (SpecParallel).

\* No element occurs twice in the list
NoDuplicates(xs) == \A i \in 1..Len(xs) : \A j \in 1..Len(xs) : xs[i] = xs[j] => i = j

\* The mutants of killed_mutants, in order
KilledSpecList == [i \in 1..Len(killed_mutants) |-> killed_mutants[i].spec]

\* C28 as stated: with parallel workers and every block that changes queue,
\* alive or killed taken as one critical section, under every interleaving
\* alive and killed partition the initial mutants, the queue is part of alive,
\* no mutant is recorded in killed more than once, and no mutant gets two
\* sessions.
C28_ParallelAsStated ==
    /\ Elems(alive_mutants) \cup KilledSpecs = Elems(mutants)
    /\ Elems(alive_mutants) \cap KilledSpecs = {}
    /\ Elems(mutant_queue) \subseteq Elems(alive_mutants)
    /\ NoDuplicates(KilledSpecList)
    /\ NoDuplicates(cr_started)

\* C28: under every interleaving alive and killed partition the initial
\* mutants, the queue is part of alive, no mutant gets two sessions, and a
\* mutant is recorded in killed at most once by its own session and at most
\* once by the sweep of each other session.
C28_Parallel ==
    /\ Elems(alive_mutants) \cup KilledSpecs = Elems(mutants)
    /\ Elems(alive_mutants) \cap KilledSpecs = {}
    /\ Elems(mutant_queue) \subseteq Elems(alive_mutants)
    /\ NoDuplicates(cr_started)
    /\ \A m \in Elems(mutants) :
          Cardinality({i \in 1..Len(killed_mutants) : killed_mutants[i].spec = m})
              <= Len(cr_started)

\* Both workers are at work, one in its sweep after a kill, and the mutant of
\* the other is recorded in killed twice
C28_Witness ==
    /\ \E w \in Workers : cr_pc[w] = "sweep"
    /\ \E i \in 1..Len(killed_mutants) : \E j \in 1..Len(killed_mutants) :
          i # j /\ killed_mutants[i].spec = killed_mutants[j].spec
    /\ Len(cr_started) >= 2

---------------------------------------------------------------------------
\* C29

\* The state of the session is DONE, ABORTED or INVALID
InFinalState == \E s \in FinalStates : get_state(conversation) = Returns(s)

\* iterate returned the result, or perform_next_step raised
\* InvalidStateException, in the step
ReturnsOrRaises ==
    \/ loop_pc' = "returned" /\ exception' = exception
    \/ loop_pc' = "raised" /\ exception' = "InvalidStateException"

\* C29: DONE, ABORTED and INVALID are absorbing: in such a state iterate
\* performs no step and returns the result without requesting a completion or
\* appending a message, and perform_next_step raises InvalidStateException and
\* leaves the conversation unchanged.
C29_FinalStatesAbsorb ==
    [][InFinalState =>
          /\ ReturnsOrRaises
          /\ conversation' = conversation
          /\ endpoint' = endpoint
          /\ problem' = problem]_vars

\* iterate returned on a recorded conversation that ends in DONE, ABORTED or
\* INVALID, with a recorded response still to be replayed
C29_Witness ==
    /\ loop_pc = "returned"
    /\ InFinalState
    /\ Len(conversation) = 1
    /\ endpoint.replay_messages # <<>>

---------------------------------------------------------------------------
\* C30

\* The states a step of the driving loop can lead to from a state
Edges(state) ==
    IF state = EMPTY THEN {INITIAL}
    ELSE IF state \in PromptStates
    THEN {EXPERIMENT_STATED, TEST_STATED, CLAIMED_EQUIVALENT, INCOMPLETE_RESPONSE}
    ELSE IF state = EXPERIMENT_STATED
    THEN {EXPERIMENT_DOESNT_COMPILE, EXPERIMENT_RESULTS_GIVEN, TEST_INSTRUCTIONS_GIVEN, ABORTED}
    ELSE IF state = TEST_STATED
    THEN {TEST_DOESNT_COMPILE, TEST_DOESNT_DETECT_MUTANT, TEST_INSTRUCTIONS_GIVEN, DONE,
          ABORTED}
    ELSE IF state = CLAIMED_EQUIVALENT THEN {EQUIVALENCE_MESSAGE_GIVEN}
    ELSE IF state = INCOMPLETE_RESPONSE
    THEN {INCOMPLETE_RESPONSE_INSTRUCTIONS_GIVEN, ABORTED}
    ELSE {}

\* The step appends exactly one message, of the assistant
OneAssistantMessage ==
    /\ Len(conversation') = Len(conversation) + 1
    /\ SubSeq(conversation', 1, Len(conversation)) = conversation
    /\ Last(conversation').role = ASSISTANT

\* C30: every step of the driving loop that writes to the conversation moves
\* the state along an edge of the state graph, a step from a prompting state
\* appends exactly one assistant message, and the state is never INVALID.
C30_StateEdges ==
    [][LET before == get_state(conversation)
           after == get_state(conversation')
       IN  /\ before.raises = "" /\ after.raises = ""
           /\ before.value # INVALID /\ after.value # INVALID
           /\ conversation' # conversation => after.value \in Edges(before.value)
           /\ (conversation' # conversation /\ before.value \in PromptStates)
                 => OneAssistantMessage]_vars

\* A session that went from the empty conversation through an experiment and
\* a test that did not detect the mutant, and then ended with a killing test
C30_Witness ==
    /\ conversation # <<>>
    /\ conversation[1].tag # INITIAL
    /\ get_state(conversation) = Returns(DONE)
    /\ \E i \in 1..Len(conversation) : conversation[i].tag = EXPERIMENT_RESULTS_GIVEN
    /\ \E i \in 1..Len(conversation) : conversation[i].tag = TEST_DOESNT_DETECT_MUTANT

---------------------------------------------------------------------------
\* C31

\* The tags the backward scan passes over
ScanPasses == {INCOMPLETE_RESPONSE, INCOMPLETE_RESPONSE_INSTRUCTIONS_GIVEN}

\* The index the maximal run of INCOMPLETE_RESPONSE and
\* INCOMPLETE_RESPONSE_INSTRUCTIONS_GIVEN messages at the end of conv starts at
RunStart(conv) ==
    CHOOSE k \in 1..(Len(conv) + 1) :
        /\ \A i \in k..Len(conv) : conv[i].tag \in ScanPasses
        /\ k > 1 => conv[k - 1].tag \notin ScanPasses

IsIncompleteResponse(msg) == msg.tag = INCOMPLETE_RESPONSE

\* The INCOMPLETE_RESPONSE messages of that run, in chronological order
PrecedingIncomplete(conv) ==
    SelectSeq(SubSeq(conv, RunStart(conv), Len(conv)), IsIncompleteResponse)

\* A response was classified in the step
ResponseClassified ==
    /\ \E s \in PromptStates : get_state(conversation) = Returns(s)
    /\ Len(conversation') = Len(conversation) + 1

\* C31: the text parsed for a new response is the concatenation, in
\* chronological order, of the maximal run of INCOMPLETE_RESPONSE messages that
\* immediately precede it (INCOMPLETE_RESPONSE_INSTRUCTIONS_GIVEN messages
\* skipped) followed by the response; a message with any other tag ends the
\* scan, so nothing before it contributes.
C31_ParsedText ==
    [][ResponseClassified =>
          /\ _concat_incomplete_responses_with(conversation, Last(conversation')) =
                join(Contents(Append(PrecedingIncomplete(conversation), Last(conversation'))))
          /\ _concat_incomplete_responses(conversation') =
                join(Contents(Append(PrecedingIncomplete(conversation), Last(conversation'))))]_vars

\* A response follows an incomplete response and its instructions, and an
\* earlier incomplete response is separated from them by another message
C31_Witness ==
    /\ Len(conversation) >= 5
    /\ LET n == Len(conversation) IN
          /\ conversation[n].tag \in {EXPERIMENT_STATED, TEST_STATED}
          /\ conversation[n - 1].tag = INCOMPLETE_RESPONSE_INSTRUCTIONS_GIVEN
          /\ conversation[n - 2].tag = INCOMPLETE_RESPONSE
          /\ conversation[n - 2].content # <<>>
          /\ \E i \in 1..(n - 3) : \E j \in 1..(n - 3) :
                /\ i < j
                /\ conversation[i].tag = INCOMPLETE_RESPONSE
                /\ conversation[i].content # <<>>
                /\ conversation[j].tag \notin ScanPasses

---------------------------------------------------------------------------
\* C32

\* The number of # signs a line starts with
NumberOfHashes(line) == RunLength(line, 1, Hashes)

\* The depth of a headline line: the number of its # signs, or, as the code
\* takes it, 1 for every equivalence headline (line 645)
Depth(line, as_coded) ==
    IF as_coded /\ HeadlineOf(line).kind = "equivalence" THEN 1 ELSE NumberOfHashes(line)

\* The last headline of a list of lines that started a section, 0 if none did
LastStart(flags) ==
    IF \E i \in 1..Len(flags) : flags[i]
    THEN CHOOSE i \in 1..Len(flags) : flags[i] /\ \A j \in (i + 1)..Len(flags) : ~flags[j]
    ELSE 0

\* For the first n detected lines, whether the line starts a section by the
\* rule: a headline outside code whose kind differs from the kind of the
\* running section, or whose depth is at most the depth of it
RECURSIVE StartFlags(_, _, _)
StartFlags(detected, n, as_coded) ==
    IF n = 0 THEN <<>>
    ELSE LET flags == StartFlags(detected, n - 1, as_coded)
             line == detected[n].line
             running == LastStart(flags)
         IN  Append(flags,
                 /\ ~detected[n].is_code
                 /\ HeadlineOf(line).kind # "none"
                 /\ \/ running = 0
                    \/ HeadlineOf(line).kind # HeadlineOf(detected[running].line).kind
                    \/ Depth(line, as_coded) <= Depth(detected[running].line, as_coded))

\* The headlines that start a section by the rule, in order
StartingHeadlines(text, as_coded) ==
    LET detected == detect_markdown_code_blocks(text)
        flags == StartFlags(detected, Len(detected), as_coded)
        IsStart(i) == flags[i]
        idx == SelectSeq([i \in 1..Len(detected) |-> i], IsStart)
    IN  [k \in 1..Len(idx) |->
            [kind |-> HeadlineOf(detected[idx[k]].line).kind, line |-> detected[idx[k]].line]]

\* The sections the parser opened at a headline: kind and first line
HasKind(section) == section.kind # "none"
HeadedSections(text) ==
    LET sections == SelectSeq(_parse_response(text), HasKind)
    IN  [k \in 1..Len(sections) |->
            [kind |-> sections[k].kind, line |-> splitlines(sections[k].text)[1]]]

\* The recorded response was classified
Classified == Len(conversation) >= 2 /\ conversation[2].role = ASSISTANT

---------------------------------------------------------------------------
\* C33

\* The mutants the running sweep has killed (the first kill of the session is
\* the one of its own mutant)
SweptKilled == {cr_killed[k].spec : k \in 2..Len(cr_killed)}

\* The mutants that were alive when the running sweep started
AliveAtSweepStart == Elems(alive_mutants) \cup SweptKilled

\* The mutants of them the sweep has gone over
Examined == AliveAtSweepStart \ Elems(cr_todo)

\* Sessions that ended without a killing test
LeftAlive == {loops[i].mutant : i \in {j \in 1..Len(loops) : ~loops[j].mutant_killed}}

\* C33: a sweep goes over every mutant that was alive when it started, those
\* left alive by their own session and no longer queued included, and runs
\* the killing test against exactly the ones of them whose lines the test
\* covers; the mutants it kills are among these.
C33_SweepCoversAlive ==
    cr_pc = "sweep" =>
        /\ Elems(cr_todo) \subseteq Elems(alive_mutants)
        /\ cr_runs = Cardinality({m \in Examined : is_mutant_covered(m, cr_test.coverage)})
        /\ \A m \in SweptKilled : is_mutant_covered(m, cr_test.coverage)

\* A sweep is through and has killed a mutant that its own session had left
\* alive and that was no longer queued
C33_Witness ==
    /\ cr_pc = "sweep"
    /\ cr_todo = <<>>
    /\ SweptKilled \cap LeftAlive # {}
    /\ Elems(alive_mutants) # {}

---------------------------------------------------------------------------
\* C34

\* The turn count the handlers obtain from the tags
TurnsByTags(conv) ==
    Cardinality({i \in 1..Len(conv) : conv[i].tag \in {EXPERIMENT_STATED, TEST_STATED}})

\* A run handler has handled an experiment or a test in the step
RunHandled ==
    /\ \/ get_state(conversation) = Returns(EXPERIMENT_STATED)
       \/ get_state(conversation) = Returns(TEST_STATED)
    /\ conversation' # conversation

\* C34: after every run handler the number of EXPERIMENT_STATED and
\* TEST_STATED messages equals len(experiments) + len(tests): the handler
\* appends exactly one record, and no step removes or replaces a record.
C34_TurnsAreRecords ==
    [][/\ IsPrefix(experiments, experiments')
       /\ IsPrefix(tests, tests')
       /\ RunHandled =>
             /\ Len(experiments') + Len(tests') = Len(experiments) + Len(tests) + 1
             /\ TurnsByTags(conversation') = Len(experiments') + Len(tests')]_vars

\* A session from the empty conversation after its second run handler, with
\* an experiment and a test on record
C34_Witness ==
    /\ conversation # <<>>
    /\ conversation[1].tag # INITIAL
    /\ Len(experiments) = 1
    /\ Len(tests) = 1
    /\ TurnsByTags(conversation) = 2
    /\ get_state(conversation) \notin {Returns(EXPERIMENT_STATED), Returns(TEST_STATED)}

---------------------------------------------------------------------------
\* C35

\* The sections the run handler parses in the present state
HandlerSections == _parse_response(_concat_incomplete_responses(conversation))

\* C35: in a session driven by iterate the run handlers never raise
\* InvalidStateException: whenever the state is EXPERIMENT_STATED the text the
\* handler parses holds an experiment, and whenever it is TEST_STATED a test.
C35_RunHandlersDecode ==
    /\ exception # "InvalidStateException"
    /\ get_state(conversation) = Returns(EXPERIMENT_STATED) =>
          guess_experiment(HandlerSections).type = "ExperimentDescription"
    /\ get_state(conversation) = Returns(TEST_STATED) =>
          guess_test(HandlerSections).type = "TestDescription"

\* After the test instructions a response whose code has no headline was
\* tagged TEST_STATED, and _run_test has handled it as a test
C35_Witness ==
    /\ Len(tests) = 1
    /\ \E i \in 1..Len(conversation) :
          /\ conversation[i].tag = TEST_STATED
          /\ guess_action(_parse_response(conversation[i].content)).action.type =
                "ExperimentDescription"

---------------------------------------------------------------------------
\* C36

\* C36: with max_num_turns >= 1 the number of EXPERIMENT_STATED plus
\* TEST_STATED messages is at most max_num_turns in every state, and so is the
\* number of experiments and tests that were validated.
C36_TurnsBounded ==
    settings.max_num_turns >= 1 =>
        /\ TurnsByTags(conversation) <= settings.max_num_turns
        /\ problem.validate_code <= settings.max_num_turns
        /\ problem.run_experiment + problem.run_test <= settings.max_num_turns

\* A session from the empty conversation used all of its two or more turns
\* and was aborted
C36_Witness ==
    /\ conversation # <<>>
    /\ conversation[1].tag # INITIAL
    /\ settings.max_num_turns >= 2
    /\ TurnsByTags(conversation) = settings.max_num_turns
    /\ problem.validate_code = settings.max_num_turns
    /\ get_state(conversation) = Returns(ABORTED)

---------------------------------------------------------------------------
\* C37

\* The killed_mutants lists of the results, one after the other
RECURSIVE ResultKills(_)
ResultKills(results) ==
    IF results = <<>> THEN <<>>
    ELSE Head(results).killed_mutants \o ResultKills(Tail(results))

\* C37: in a sequential campaign over distinct mutants no mutant is recorded
\* twice in killed and |alive| + |killed| is the number of initial mutants at
\* every point; the killed_mutants lists of the results, followed by the kills
\* of the session in progress, are the scheduler's killed list, so between
\* sessions the lists are pairwise disjoint and make up exactly that list; and
\* the list of a session that killed starts with its own mutant, the list of
\* one that did not is empty.
C37_KillsRecordedOnce ==
    /\ NoDuplicates(KilledSpecList)
    /\ Len(alive_mutants) + Len(killed_mutants) = Len(mutants)
    /\ ResultKills(loops) \o cr_killed = killed_mutants
    /\ cr_pc \in {"while", "finished"} => ResultKills(loops) = killed_mutants
    /\ \A i \in 1..Len(loops) :
          IF loops[i].mutant_killed
          THEN /\ loops[i].killed_mutants # <<>>
               /\ loops[i].killed_mutants[1].spec = loops[i].mutant
          ELSE loops[i].killed_mutants = <<>>

\* A finished campaign of three sessions: one killed two mutants, one killed
\* its own, one killed none
C37_Witness ==
    /\ cr_pc = "finished"
    /\ \E i \in 1..Len(loops) : Len(loops[i].killed_mutants) >= 2
    /\ \E i \in 1..Len(loops) : Len(loops[i].killed_mutants) = 1
    /\ \E i \in 1..Len(loops) : ~loops[i].mutant_killed

---------------------------------------------------------------------------
\* C38

\* The sessions whose target was the mutant
SessionsOf(m) == {i \in 1..Len(loops) : loops[i].mutant = m}

\* The kill record is in the list of a result: at its head iff the session's
\* own test killed its own mutant, further back iff a sweep of the test of
\* another session killed it
KilledBySessionOrSweep(killed) ==
    \E i \in 1..Len(loops) : \E j \in 1..Len(loops[i].killed_mutants) :
        /\ loops[i].killed_mutants[j] = killed
        /\ loops[i].mutant_killed
        /\ (j = 1) <=> (loops[i].mutant = killed.spec)

\* C38: when generate_tests has finished (its loop ended on the empty queue;
\* the end by the exception of a sweep is not a finish) no mutant was
\* skipped: every mutant
\* is alive or killed, every alive mutant was the target of exactly one
\* session, which ended without a killing test, and every killed mutant was
\* killed by the test of its own session or by a sweep of the test of another.
C38_NoMutantSkipped ==
    cr_pc = "finished" =>
        /\ mutant_queue = <<>>
        /\ Elems(alive_mutants) \cup KilledSpecs = Elems(mutants)
        /\ \A m \in Elems(alive_mutants) :
              /\ Cardinality(SessionsOf(m)) = 1
              /\ \A i \in SessionsOf(m) : ~loops[i].mutant_killed
        /\ \A k \in 1..Len(killed_mutants) : KilledBySessionOrSweep(killed_mutants[k])

\* A finished campaign that left a mutant alive and killed one by a sweep
\* after the session of that mutant had failed
C38_Witness ==
    /\ cr_pc = "finished"
    /\ alive_mutants # <<>>
    /\ \E k \in 1..Len(killed_mutants) :
          /\ SessionsOf(killed_mutants[k].spec) # {}
          /\ \A i \in SessionsOf(killed_mutants[k].spec) : ~loops[i].mutant_killed

---------------------------------------------------------------------------
\* C39

\* The test the run-test handler of the baseline decodes in the present state
BaselineTest ==
    guess_test(Baseline_parse_response(_concat_incomplete_responses(conversation)))

\* C39: in a baseline session started from an empty conversation a response
\* without a usable code block is tagged INCOMPLETE_RESPONSE and only one with
\* a usable code block is tagged TEST_STATED, so the run-test handler always
\* finds a test to decode and never raises InvalidStateException.
C39_BaselineTestDecodable ==
    /\ exception # "InvalidStateException"
    /\ get_state(conversation) = Returns(TEST_STATED) => BaselineTest.type = "TestDescription"

====
